---- MODULE Spec2Model ----
(***************************************************************************)
(* Victoriae web client: the rendering worker (message handler, resource   *)
(* managers, layer compositor, frame loop) and the shared-state channel it *)
(* shares with the input thread.                                           *)
(*                                                                         *)
(* Conventions.                                                            *)
(*  - A nullable reference is a sequence: <<>> is null, <<v>> holds v.     *)
(*  - A typed array is a sequence of numbers; a grid (Uint32Array) is kept *)
(*    as its length and its fill value, because no code under src/ reads   *)
(*    or writes single cells of a grid.                                    *)
(*  - The clock counts ticks of 100 ms (performance.now() / 1000 in units  *)
(*    of 0.1 s), so MOVE_DURATION = 0.3 s is 3 ticks.                      *)
(*  - Positions are whole numbers; an interpolated position is rounded     *)
(*    down to a whole number where the code stores it into a Float32Array. *)
(***************************************************************************)
EXTENDS Integers, Naturals, Sequences, FiniteSets, TLC

VARIABLES
    now,            \* performance.now(), in ticks
    inbox,          \* messages posted to the worker and not yet handled
    mainSentInit,   \* the input thread has posted INIT
    workerPhase,    \* "idle" | "initializing" | "running" | "stopped"
    canvas,         \* the worker's OffscreenCanvas: <<>> or <<[width, height]>>
    mapManager,     \* <<>> until startRendering creates it, then <<MapManager>>
    entityManager,  \* <<>> until startRendering creates it, then <<EntityManager>>
    viewManager,    \* <<>> until startRendering creates it, then <<ViewManager>>
    sab,            \* the shared-state channel: field name -> value
    sabWriters,     \* observation: field name -> set of threads that wrote it
    lastMsg,        \* observation: what the last handled message did
    lastFrame,      \* observation: what the last frame did
    dropped,        \* observation: valid updates the handler discarded
    heap,           \* the typed arrays created so far and who holds each
    main            \* the input thread's unit registry and selection timers

vars == <<now, inbox, mainSentInit, workerPhase, canvas, mapManager,
          entityManager, viewManager, sab, sabWriters, lastMsg, lastFrame,
          dropped, heap, main>>

----------------------------------------------------------------------------
(* Bounds of the model *)

MaxTime == 4
MaxQueue == 1
MaxUnits == 1
MaxVersion == 3
MaxLayers == 2
MaxAdds == 3

(* Program constants *)

MOVE_DURATION == 3
MINIMAP_SIZE == 200
MINIMAP_MARGIN == 10
FLOATS_PER_UNIT == 4

----------------------------------------------------------------------------
(* Nullable references *)

Null == <<>>
Some(v) == <<v>>
IsNull(r) == r = <<>>
Val(r) == r[1]

Min(a, b) == IF a < b THEN a ELSE b
Max(a, b) == IF a > b THEN a ELSE b

----------------------------------------------------------------------------
(* GPU buffers.  gen is the ordinal of the createBuffer call that made the *)
(* buffer for its manager, size its byte size, data the last content       *)
(* written to it.                                                          *)

createBuffer(old, size) ==
    [gen  |-> IF IsNull(old) THEN 1 ELSE Val(old).gen + 1,
     size |-> size,
     data |-> Null]

(* queue.writeBuffer(buffer, 0, data): a write larger than the buffer is a *)
(* validation error on the device timeline and the content is unchanged.   *)
writeBuffer(buffer, data, byteLength) ==
    IF byteLength <= buffer.size
    THEN [buffer EXCEPT !.data = Some(data)]
    ELSE buffer

----------------------------------------------------------------------------
(* Grids: a Uint32Array of tile ids, kept as [length, fill].               *)

GridByteLength(tileData) == tileData.length * 4

(* The largest r in lo..hi with r * r <= n, by bisection                   *)
RECURSIVE FloorSqrt(_, _, _)
FloorSqrt(n, lo, hi) ==
    IF lo >= hi THEN lo
    ELSE LET mid == (lo + hi + 1) \div 2
         IN  IF mid * mid <= n THEN FloorSqrt(n, mid, hi)
                               ELSE FloorSqrt(n, lo, mid - 1)

(* Math.sqrt(length) when Number.isInteger holds of it, -1 otherwise       *)
IntegerSqrt(n) ==
    LET r == FloorSqrt(n, 0, n) IN IF r * r = n THEN r ELSE -1

----------------------------------------------------------------------------
(* MapManager *)

NewMapManager ==
    [device               |-> FALSE,
     tilemapStorageBuffer |-> Null,
     currentMapSize       |-> 0,
     currentTileData      |-> Null]

MapManager_init(mm) == [mm EXCEPT !.device = TRUE]

(* needsNewBuffer of updateMapData: evaluated after currentMapSize has     *)
(* been assigned, so its second disjunct compares mapSize with itself.     *)
MapNeedsNewBuffer(mmStored, mapSize) ==
    IsNull(mmStored.tilemapStorageBuffer) \/ mmStored.currentMapSize # mapSize

(* An updateMapData that does not test the device                         *)
updateMapDataUnguarded(mm, tileData, mapSize) ==
    [mm EXCEPT !.currentTileData = Some(tileData), !.currentMapSize = mapSize]

updateMapData(mm, tileData, mapSize) ==
    IF ~mm.device THEN mm
    ELSE IF tileData.length # mapSize * mapSize THEN mm
    ELSE
      LET stored == [mm EXCEPT !.currentTileData = Some(tileData),
                               !.currentMapSize = mapSize]
          bufferSize == GridByteLength(tileData)
          buf == IF MapNeedsNewBuffer(stored, mapSize)
                 THEN createBuffer(stored.tilemapStorageBuffer, bufferSize)
                 ELSE Val(stored.tilemapStorageBuffer)
      IN  [stored EXCEPT !.tilemapStorageBuffer =
                              Some(writeBuffer(buf, tileData, bufferSize))]

getMapSize(mm) == mm.currentMapSize
hasMapData(mm) == ~IsNull(mm.tilemapStorageBuffer) /\ ~IsNull(mm.currentTileData)

(* Number of times the map manager has (re)created its GPU buffer.         *)
MapBufferCreations(mm) ==
    IF IsNull(mm.tilemapStorageBuffer) THEN 0 ELSE Val(mm.tilemapStorageBuffer).gen

----------------------------------------------------------------------------
(* EntityManager *)

NewEntityManager ==
    [device              |-> FALSE,
     unitStorageBuffer   |-> Null,
     currentUnitCount    |-> 0,
     currentUnitData     |-> Null,
     bufferVersion       |-> 0,
     interpolationStates |-> << >>,
     interpolatedData    |-> Null]

EntityManager_init(em) == [em EXCEPT !.device = TRUE]

FloatByteLength(data) == Len(data) * 4

(* The value standing for undefined / NaN in a Float32Array slot           *)
NaN == -1000000

(* typedArray[offset] with a 0-based offset: a read past the end of the    *)
(* array yields undefined                                                  *)
At(data, offset) == IF offset + 1 \in DOMAIN data THEN data[offset + 1] ELSE NaN

(* typedArray[offset] = v: a store outside the array is ignored            *)
Store(data, offset, v) ==
    IF offset + 1 \in DOMAIN data THEN [data EXCEPT ![offset + 1] = v] ELSE data

(* Map.size, Map.delete, Map.set on interpolationStates                    *)
MapSize(m) == Cardinality(DOMAIN m)
MapDelete(m, k) == [i \in (DOMAIN m) \ {k} |-> m[i]]
MapSet(m, k, v) == [i \in (DOMAIN m) \cup {k} |-> IF i = k THEN v ELSE m[i]]

(* start + (target - start) * progress, progress = min(1, elapsed / MOVE_DURATION) *)
Lerp(start, target, elapsed) ==
    IF start = NaN \/ target = NaN THEN NaN
    ELSE IF elapsed >= MOVE_DURATION
    THEN start + (target - start)
    ELSE start + ((target - start) * elapsed) \div MOVE_DURATION

InterpolationDone(state, t) == t - state.startTime >= MOVE_DURATION

(* The loop of updateInterpolation over the entries of interpolationStates *)
RECURSIVE InterpolateAll(_, _, _, _)
InterpolateAll(states, keys, interpolated, t) ==
    IF keys = {} THEN interpolated
    ELSE LET unitIndex == CHOOSE k \in keys : TRUE
             state == states[unitIndex]
             elapsed == t - state.startTime
             offset == unitIndex * FLOATS_PER_UNIT
             withX == Store(interpolated, offset + 0,
                            Lerp(state.startX, state.targetX, elapsed))
             withY == Store(withX, offset + 1,
                            Lerp(state.startY, state.targetY, elapsed))
         IN  InterpolateAll(states, keys \ {unitIndex}, withY, t)

(* A faulty advance that interpolates the committed table in place         *)
updateInterpolationInPlace(em, t) ==
    IF IsNull(em.currentUnitData) \/ MapSize(em.interpolationStates) = 0
    THEN [em EXCEPT !.interpolatedData = Null]
    ELSE LET states == em.interpolationStates
             interpolated ==
                 InterpolateAll(states, DOMAIN states, Val(em.currentUnitData), t)
             remaining == {k \in DOMAIN states : ~InterpolationDone(states[k], t)}
         IN  [em EXCEPT !.interpolationStates = [k \in remaining |-> states[k]],
                        !.currentUnitData = Some(interpolated),
                        !.interpolatedData = Some(interpolated)]

updateInterpolation(em, t) ==
    IF IsNull(em.currentUnitData) \/ MapSize(em.interpolationStates) = 0
    THEN [em EXCEPT !.interpolatedData = Null]
    ELSE LET states == em.interpolationStates
             interpolated ==
                 InterpolateAll(states, DOMAIN states, Val(em.currentUnitData), t)
             remaining == {k \in DOMAIN states : ~InterpolationDone(states[k], t)}
         IN  [em EXCEPT !.interpolationStates = [k \in remaining |-> states[k]],
                        !.interpolatedData = Some(interpolated)]

(* A faulty validation that lets every table through                       *)
UnitSizeMismatchNever(unitData, unitCount) == FALSE

(* The size validation of updateUnitData, repeated by the UPDATE_UNITS     *)
(* branch of the message handler                                           *)
UnitSizeMismatch(unitData, unitCount) ==
    Len(unitData) # unitCount * FLOATS_PER_UNIT

(* A faulty choice of start position: the committed (target) data          *)
CurrentVisualDataCommitted(em) == Val(em.currentUnitData)

(* currentVisualData of updateUnitData                                     *)
CurrentVisualData(em) ==
    IF ~IsNull(em.interpolatedData)
    THEN Val(em.interpolatedData)
    ELSE Val(em.currentUnitData)

(* needsNewBuffer of updateUnitData: evaluated before currentUnitCount is  *)
(* assigned.                                                               *)
EntityNeedsNewBuffer(em, unitCount) ==
    IsNull(em.unitStorageBuffer) \/ em.currentUnitCount # unitCount

(* The position-change loop of updateUnitData for slots i..unitCount-1     *)
RECURSIVE DetectMoves(_, _, _, _, _, _)
DetectMoves(states, currentVisualData, unitData, unitCount, i, t) ==
    IF i >= unitCount THEN states
    ELSE LET offset == i * FLOATS_PER_UNIT
             oldX == At(currentVisualData, offset + 0)
             oldY == At(currentVisualData, offset + 1)
             newX == At(unitData, offset + 0)
             newY == At(unitData, offset + 1)
             next == IF oldX # newX \/ oldY # newY
                     THEN MapSet(states, i,
                                 [startX |-> oldX, startY |-> oldY,
                                  targetX |-> newX, targetY |-> newY,
                                  startTime |-> t])
                     ELSE MapDelete(states, i)
         IN  DetectMoves(next, currentVisualData, unitData, unitCount, i + 1, t)

(* A faulty version rule: every accepted update bumps the version          *)
NextBufferVersionAlways(version, needsNewBuffer) == version + 1

(* The buffer version after an accepted update                             *)
NextBufferVersion(version, needsNewBuffer) ==
    IF needsNewBuffer THEN version + 1 ELSE version

updateUnitData(em, unitData, unitCount, t) ==
    IF ~em.device THEN em
    ELSE IF UnitSizeMismatch(unitData, unitCount) THEN em
    ELSE
      LET bufferSize == FloatByteLength(unitData)
          needsNewBuffer == EntityNeedsNewBuffer(em, unitCount)
          states1 ==
              IF ~IsNull(em.currentUnitData) /\ em.currentUnitCount = unitCount
              THEN DetectMoves(em.interpolationStates, CurrentVisualData(em),
                               unitData, unitCount, 0, t)
              ELSE em.interpolationStates
          buf == IF needsNewBuffer
                 THEN createBuffer(em.unitStorageBuffer, bufferSize)
                 ELSE Val(em.unitStorageBuffer)
          stored == [em EXCEPT !.interpolationStates = states1,
                               !.currentUnitData = Some(unitData),
                               !.currentUnitCount = unitCount,
                               !.bufferVersion =
                                   NextBufferVersion(em.bufferVersion, needsNewBuffer)]
      IN  IF MapSize(states1) = 0
          THEN [stored EXCEPT !.unitStorageBuffer =
                                   Some(writeBuffer(buf, unitData, bufferSize))]
          ELSE LET em2 == updateInterpolation(stored, t)
               IN  [em2 EXCEPT !.unitStorageBuffer =
                        IF ~IsNull(em2.interpolatedData)
                        THEN Some(writeBuffer(buf, Val(em2.interpolatedData),
                                      FloatByteLength(Val(em2.interpolatedData))))
                        ELSE Some(buf)]

(* EntityManager.update(deltaTime), called by UnitLayer.update every frame *)
EntityManager_update(em, t) ==
    IF ~em.device \/ IsNull(em.unitStorageBuffer) \/ IsNull(em.currentUnitData)
    THEN em
    ELSE LET em2 == updateInterpolation(em, t)
             dataToWrite == IF ~IsNull(em2.interpolatedData)
                            THEN Val(em2.interpolatedData)
                            ELSE Val(em2.currentUnitData)
         IN  [em2 EXCEPT !.unitStorageBuffer =
                  Some(writeBuffer(Val(em2.unitStorageBuffer), dataToWrite,
                                   FloatByteLength(dataToWrite)))]

getUnitCount(em) == em.currentUnitCount
getBufferVersion(em) == em.bufferVersion

----------------------------------------------------------------------------
(* The shared-state channel (SAB_OFFSETS).  CAMERA_ZOOM is kept in tenths. *)

InputFields == {"CAMERA_X", "CAMERA_Y", "CAMERA_ZOOM", "MOUSE_WORLD_X",
                "MOUSE_WORLD_Y", "SCREEN_WIDTH", "SCREEN_HEIGHT", "IS_MOUSE_DOWN"}
RenderFields == {"CAPTURED_LAYER_ID", "HOVERED_TILE_X", "HOVERED_TILE_Y"}
SabFields == InputFields \cup RenderFields

(* v || d of JavaScript on numbers                                         *)
OrDefault(v, d) == IF v = 0 THEN d ELSE v

(* One write of a field by a thread, with the record of who wrote it       *)
SabWrite(ch, field, v) ==
    [sab |-> [ch.sab EXCEPT ![field] = v], wrote |-> ch.wrote \cup {field}]

----------------------------------------------------------------------------
(* Layers.  A layer is [kind, layerId, visible, viewport, bindGroup,       *)
(* lastBufferVersion]; bindGroup is null or the gen of the manager buffer  *)
(* the bind group was created with.  Every layer in the collection has run *)
(* init (ViewManager.add calls it), so its device and pipeline are set.    *)

NewLayer(kind, viewport) ==
    [kind |-> kind, layerId |-> -1, visible |-> TRUE, viewport |-> viewport,
     bindGroup |-> Null, lastBufferVersion |-> -1, cleanup |-> FALSE]

MinimapViewport(cv) ==
    [x |-> OrDefault(cv.width, 800) - MINIMAP_SIZE - MINIMAP_MARGIN,
     y |-> MINIMAP_MARGIN, width |-> MINIMAP_SIZE, height |-> MINIMAP_SIZE]

(* layer.init(context)                                                     *)
Layer_init(layer, cv) ==
    IF layer.kind = "minimap"
    THEN [layer EXCEPT !.viewport = Some(MinimapViewport(cv)), !.bindGroup = Null]
    ELSE [layer EXCEPT !.bindGroup = Null]

(* WorldLayer.ensureBindGroup and MinimapView.ensureBindGroup              *)
MapEnsureBindGroup(layer, mm) ==
    IF ~IsNull(layer.bindGroup) THEN layer
    ELSE IF IsNull(mm.tilemapStorageBuffer) THEN layer
    ELSE [layer EXCEPT !.bindGroup = Some(Val(mm.tilemapStorageBuffer).gen)]

(* A faulty ensureBindGroup that never looks at the buffer version         *)
UnitEnsureBindGroupOnce(layer, em) ==
    IF IsNull(em.unitStorageBuffer) THEN layer
    ELSE IF IsNull(layer.bindGroup)
    THEN [layer EXCEPT !.bindGroup = Some(Val(em.unitStorageBuffer).gen)]
    ELSE layer

(* UnitLayer.ensureBindGroup                                               *)
UnitEnsureBindGroup(layer, em) ==
    IF IsNull(em.unitStorageBuffer) THEN layer
    ELSE LET currentBufferVersion == getBufferVersion(em)
             checked == IF currentBufferVersion # layer.lastBufferVersion
                        THEN [layer EXCEPT !.bindGroup = Null,
                                           !.lastBufferVersion = currentBufferVersion]
                        ELSE layer
         IN  IF IsNull(checked.bindGroup)
             THEN [checked EXCEPT !.bindGroup = Some(Val(em.unitStorageBuffer).gen)]
             ELSE checked

(* layer.update(sabView, deltaTime): fs is [sab, wrote, em]                *)
Layer_update(layer, fs, mm, cv, t) ==
    CASE layer.kind = "world" ->
           LET w1 == SabWrite(fs, "SCREEN_WIDTH", OrDefault(cv.width, 800))
               w2 == SabWrite(w1, "SCREEN_HEIGHT", OrDefault(cv.height, 600))
           IN  [layer |-> MapEnsureBindGroup(layer, mm),
                fs |-> [fs EXCEPT !.sab = w2.sab, !.wrote = w2.wrote]]
      [] layer.kind = "unit" ->
           LET em2 == EntityManager_update(fs.em, t)
           IN  [layer |-> UnitEnsureBindGroup(layer, em2),
                fs |-> [fs EXCEPT !.em = em2]]
      [] layer.kind = "minimap" ->
           LET moved == IF ~IsNull(layer.viewport)
                        THEN [layer EXCEPT !.viewport = Some(MinimapViewport(cv))]
                        ELSE layer
           IN  [layer |-> IF getMapSize(mm) > 0 /\ ~IsNull(moved.viewport)
                          THEN MapEnsureBindGroup(moved, mm)
                          ELSE moved,
                fs |-> fs]
      [] OTHER -> [layer |-> layer, fs |-> fs]

(* layer.render(pass, needsNewPass, ...): the result is [layer, pass,      *)
(* threw, drew]; pass is the returned encoder (null or the id of the layer *)
(* that began it).                                                         *)
Layer_render(layer, pass, needsNewPass, mm, em) ==
    CASE layer.kind = "world" ->
           IF IsNull(layer.bindGroup)
           THEN [layer |-> layer, pass |-> pass, threw |-> FALSE, drew |-> FALSE]
           ELSE IF ~needsNewPass /\ IsNull(pass)
           THEN [layer |-> layer, pass |-> pass, threw |-> TRUE, drew |-> FALSE]
           ELSE [layer |-> layer,
                 pass |-> IF needsNewPass THEN Some(layer.layerId) ELSE pass,
                 threw |-> FALSE, drew |-> TRUE]
      [] layer.kind = "unit" ->
           LET l2 == UnitEnsureBindGroup(layer, em)
           IN  IF IsNull(l2.bindGroup) \/ getUnitCount(em) = 0
               THEN [layer |-> l2, pass |-> pass, threw |-> FALSE, drew |-> FALSE]
               ELSE IF IsNull(pass)
               THEN [layer |-> l2, pass |-> pass, threw |-> TRUE, drew |-> FALSE]
               ELSE [layer |-> l2, pass |-> pass, threw |-> FALSE, drew |-> TRUE]
      [] layer.kind = "minimap" ->
           IF IsNull(layer.viewport)
           THEN [layer |-> layer, pass |-> pass, threw |-> FALSE, drew |-> FALSE]
           ELSE LET l2 == MapEnsureBindGroup(layer, mm)
                IN  IF IsNull(l2.bindGroup)
                    THEN [layer |-> l2, pass |-> pass, threw |-> FALSE, drew |-> FALSE]
                    ELSE IF IsNull(pass)
                    THEN [layer |-> l2, pass |-> pass, threw |-> TRUE, drew |-> FALSE]
                    ELSE [layer |-> l2, pass |-> pass, threw |-> FALSE, drew |-> TRUE]
      [] OTHER ->
           IF IsNull(pass)
           THEN [layer |-> layer, pass |-> pass, threw |-> TRUE, drew |-> FALSE]
           ELSE [layer |-> layer, pass |-> pass, threw |-> FALSE, drew |-> TRUE]

----------------------------------------------------------------------------
(* ViewManager: [layers, gpuContext, nextLayerId]                          *)

NewViewManager == [layers |-> << >>, gpuContext |-> FALSE, nextLayerId |-> 0]

ViewManager_init(vm) == [vm EXCEPT !.gpuContext = TRUE]

(* add(layer); the caller checks gpuContext (add throws without it)        *)
(* An add that numbers the layer by its position in the collection        *)
ViewManager_addByPosition(vm, layer, cv) ==
    [vm EXCEPT !.layers = Append(vm.layers,
                                 Layer_init([layer EXCEPT !.layerId = Len(vm.layers)], cv)),
               !.nextLayerId = vm.nextLayerId + 1]

ViewManager_add(vm, layer, cv) ==
    [vm EXCEPT !.layers = Append(vm.layers,
                                 Layer_init([layer EXCEPT !.layerId = vm.nextLayerId], cv)),
               !.nextLayerId = vm.nextLayerId + 1]

(* A faulty remove that takes the last layer off the collection            *)
ViewManager_removeLast(vm, index) ==
    IF index \in DOMAIN vm.layers
    THEN [vm EXCEPT !.layers = SubSeq(vm.layers, 1, Len(vm.layers) - 1)]
    ELSE vm

(* remove(layer), the layer given by its position in the collection        *)
ViewManager_remove(vm, index) ==
    IF index \in DOMAIN vm.layers
    THEN [vm EXCEPT !.layers = [i \in 1..(Len(vm.layers) - 1) |->
                                   IF i < index THEN vm.layers[i] ELSE vm.layers[i + 1]]]
    ELSE vm

(* layers.indexOf(layer): layer objects are told apart by the id add gave  *)
(* them; 0 stands for -1 (not found)                                       *)
indexOf(layers, layer) ==
    IF \E i \in DOMAIN layers : layers[i].layerId = layer.layerId
    THEN CHOOSE i \in DOMAIN layers : layers[i].layerId = layer.layerId
    ELSE 0

(* remove(layer) with the number of times it ran layer.cleanup()           *)
ViewManager_removeLayer(vm, layer) ==
    LET index == indexOf(vm.layers, layer)
    IN  IF index # 0
        THEN [vm |-> ViewManager_remove(vm, index),
              cleanups |-> IF layer.cleanup THEN 1 ELSE 0]
        ELSE [vm |-> vm, cleanups |-> 0]

(* A faulty add without the gpuContext test                                *)
ViewManager_addUnchecked(vm, layer, cv) ==
    LET added == ViewManager_add(vm, layer, cv)
    IN  [vm |-> added, layer |-> added.layers[Len(added.layers)], threw |-> FALSE]

(* add(layer) with its gpuContext test: the compositor and the caller's    *)
(* layer object after the call, and whether the call threw                 *)
ViewManager_addOrThrow(vm, layer, cv) ==
    IF ~vm.gpuContext
    THEN [vm |-> vm, layer |-> layer, threw |-> TRUE]
    ELSE LET added == ViewManager_add(vm, layer, cv)
         IN  [vm |-> added, layer |-> added.layers[Len(added.layers)], threw |-> FALSE]

(* Positions in vm.layers of the visible layers, in order                  *)
(* A selection that ignores the visible flag                               *)
AllIndices(vm) == DOMAIN vm.layers

(* getVisibleLayers(), as positions in the collection                      *)
VisibleIndices(vm) == {i \in DOMAIN vm.layers : vm.layers[i].visible}

isPointInViewport(x, y, viewport) ==
    IF IsNull(viewport) THEN TRUE
    ELSE /\ x >= Val(viewport).x
         /\ x < Val(viewport).x + Val(viewport).width
         /\ y >= Val(viewport).y
         /\ y < Val(viewport).y + Val(viewport).height

(* A faulty scan: the lowest matching index wins                           *)
CaptureScanLowest(vm, mouseX, mouseY) ==
    LET hits == {i \in {j \in DOMAIN vm.layers : vm.layers[j].visible} :
                    IF IsNull(vm.layers[i].viewport) THEN TRUE
                    ELSE /\ mouseX >= Val(vm.layers[i].viewport).x
                         /\ mouseX < Val(vm.layers[i].viewport).x
                                        + Val(vm.layers[i].viewport).width
                         /\ mouseY >= Val(vm.layers[i].viewport).y
                         /\ mouseY < Val(vm.layers[i].viewport).y
                                        + Val(vm.layers[i].viewport).height}
    IN  IF hits = {} THEN -1
        ELSE vm.layers[CHOOSE i \in hits : \A j \in hits : i <= j].layerId

(* The scan of interceptInput: the highest visible index whose viewport    *)
(* contains the pointer, or -1                                             *)
CaptureScan(vm, mouseX, mouseY) ==
    LET hits == {i \in VisibleIndices(vm) :
                    isPointInViewport(mouseX, mouseY, vm.layers[i].viewport)}
    IN  IF hits = {} THEN -1
        ELSE vm.layers[CHOOSE i \in hits : \A j \in hits : j <= i].layerId

(* A faulty button test that always reports the button held                *)
IsMouseDownAlways(ch) == TRUE

(* isMouseDown of interceptInput                                           *)
IsMouseDown(ch) == ch.sab["IS_MOUSE_DOWN"] > 0

interceptInput(vm, ch) ==
    IF ~IsMouseDown(ch)
    THEN SabWrite(ch, "CAPTURED_LAYER_ID", -1)
    ELSE SabWrite(ch, "CAPTURED_LAYER_ID",
                  CaptureScan(vm, ch.sab["MOUSE_WORLD_X"], ch.sab["MOUSE_WORLD_Y"]))

isInputCaptured(ch) == ch.sab["CAPTURED_LAYER_ID"] >= 0

(* The loop of update over the visible layers from position i on; st is    *)
(* [vm, fs, updated], updated the layers updated so far, each with the     *)
(* CAPTURED_LAYER_ID its update call finds in sabView                      *)
RECURSIVE UpdateLayers(_, _, _, _, _)
UpdateLayers(st, i, mm, cv, t) ==
    IF i > Len(st.vm.layers) THEN st
    ELSE IF ~st.vm.layers[i].visible THEN UpdateLayers(st, i + 1, mm, cv, t)
    ELSE LET r == Layer_update(st.vm.layers[i], st.fs, mm, cv, t)
         IN  UpdateLayers([vm |-> [st.vm EXCEPT !.layers[i] = r.layer],
                           fs |-> r.fs,
                           updated |-> Append(st.updated,
                                              [layerId |-> r.layer.layerId,
                                               captured |->
                                                   st.fs.sab["CAPTURED_LAYER_ID"]])],
                          i + 1, mm, cv, t)

(* A faulty update that resolves input capture after the layers' updates   *)
ViewManager_updateLate(vm, fs, mm, cv, t) ==
    LET st == UpdateLayers([vm |-> vm, fs |-> fs, updated |-> << >>],
                           1, mm, cv, t)
        ch == interceptInput(st.vm, st.fs)
    IN  [st EXCEPT !.fs = [st.fs EXCEPT !.sab = ch.sab, !.wrote = ch.wrote]]

(* ViewManager.update(sabView, deltaTime)                                  *)
ViewManager_update(vm, fs, mm, cv, t) ==
    LET ch == interceptInput(vm, fs)
    IN  UpdateLayers([vm |-> vm,
                      fs |-> [fs EXCEPT !.sab = ch.sab, !.wrote = ch.wrote],
                      updated |-> << >>],
                     1, mm, cv, t)

(* The loop of render from position i on; st is [vm, currentPass, first,   *)
(* threw, calls]; first is TRUE until a visible layer has been rendered    *)
RECURSIVE RenderLayers(_, _, _, _)
RenderLayers(st, i, mm, em) ==
    IF i > Len(st.vm.layers) \/ st.threw THEN st
    ELSE IF ~st.vm.layers[i].visible THEN RenderLayers(st, i + 1, mm, em)
    ELSE LET needsNewPass == st.first \/ IsNull(st.currentPass)
             r == Layer_render(st.vm.layers[i], st.currentPass, needsNewPass, mm, em)
         IN  RenderLayers(
                 [vm |-> [st.vm EXCEPT !.layers[i] = r.layer],
                  currentPass |-> IF ~IsNull(r.pass) THEN r.pass ELSE st.currentPass,
                  first |-> FALSE,
                  threw |-> r.threw,
                  calls |-> Append(st.calls,
                                   [layerId |-> r.layer.layerId,
                                    needsNewPass |-> needsNewPass,
                                    passIn |-> st.currentPass,
                                    passOut |-> r.pass,
                                    drew |-> r.drew,
                                    bindGroup |-> r.layer.bindGroup])],
                 i + 1, mm, em)

(* A render that leaves the final pass open                                *)
ViewManager_renderOpen(vm, mm, em) ==
    LET st == RenderLayers([vm |-> vm, currentPass |-> Null, first |-> TRUE,
                            threw |-> FALSE, calls |-> << >>], 1, mm, em)
    IN  [vm |-> st.vm, threw |-> st.threw, calls |-> st.calls, ended |-> << >>]

(* ViewManager.render(commandEncoder, textureView, width, height); ended   *)
(* lists the passes on which end() was called                              *)
ViewManager_render(vm, mm, em) ==
    LET st == RenderLayers([vm |-> vm, currentPass |-> Null, first |-> TRUE,
                            threw |-> FALSE, calls |-> << >>], 1, mm, em)
    IN  [vm |-> st.vm, threw |-> st.threw, calls |-> st.calls,
         ended |-> IF st.threw \/ IsNull(st.currentPass) THEN << >>
                   ELSE <<Val(st.currentPass)>>]

----------------------------------------------------------------------------
(* calculateHoveredTile of the frame loop.  With zoom z = zoomTenths / 10: *)
(*   worldX = ndcX * worldSizeX / 2 + camX = (2 mx - sw) / (z sh) + camX   *)
(*   worldY = ndcY * worldSizeY / 2 + camY = (sh - 2 my) / (z sh) + camY   *)
(* Math.max(zoom, 0.001) keeps z positive.                                 *)

HOVER_MAP_SIZE == 64

(* A faulty clamp without the upper bound                                  *)
ClampBelow(lo, hi, v) == Max(lo, v)

Clamp(lo, hi, v) == Max(lo, Min(hi, v))

calculateHoveredTile(ch) ==
    LET mx == ch.sab["MOUSE_WORLD_X"]
        my == ch.sab["MOUSE_WORLD_Y"]
        camX == ch.sab["CAMERA_X"]
        camY == ch.sab["CAMERA_Y"]
        zoomTenths == ch.sab["CAMERA_ZOOM"]
        sw == ch.sab["SCREEN_WIDTH"]
        sh == ch.sab["SCREEN_HEIGHT"]
    IN  IF sw <= 0 \/ sh <= 0
        THEN SabWrite(SabWrite(ch, "HOVERED_TILE_X", -1), "HOVERED_TILE_Y", -1)
        ELSE LET tileX == camX + ((2 * mx - sw) * 10) \div (zoomTenths * sh)
                 tileY == camY + ((sh - 2 * my) * 10) \div (zoomTenths * sh)
             IN  SabWrite(SabWrite(ch, "HOVERED_TILE_X",
                                   Clamp(0, HOVER_MAP_SIZE - 1, tileX)),
                          "HOVERED_TILE_Y", Clamp(0, HOVER_MAP_SIZE - 1, tileY))

----------------------------------------------------------------------------
(* Inputs *)

Grid(length, fill) == [length |-> length, fill |-> fill]
(* A message field that is absent reads as undefined                       *)
NoGrid == Grid(-1, 0)

(* Entity records (x, y, typeId, stateBits)                                *)
UnitRecords == {<<0, 0, 1, 0>>, <<3, 0, 1, 0>>}

RECURSIVE Tables(_)
Tables(k) ==
    IF k = 0 THEN {<< >>}
    ELSE {t \o r : t \in Tables(k - 1), r \in UnitRecords}

AllTables == UNION {Tables(k) : k \in 0..MaxUnits}

(* The counts a table is sent with: its own, and one that does not match  *)
DeclaredCounts(t) == {Len(t) \div FLOATS_PER_UNIT, Len(t) \div FLOATS_PER_UNIT + 1}

(* Messages posted to the worker; every message carries every field        *)
(* buffer is the typed array the message transfers (0: none recorded)      *)
Msg(type, width, height, data, unitData, unitCount) ==
    [type |-> type, width |-> width, height |-> height, data |-> data,
     unitData |-> unitData, unitCount |-> unitCount,
     tileData |-> NoGrid, mapSize |-> 0, buffer |-> 0]

InitMsg == Msg("INIT", 800, 600, NoGrid, << >>, 0)
ResizeMsg(w, h) == Msg("RESIZE", w, h, NoGrid, << >>, 0)
UpdateMapMsg(g) == Msg("UPDATE_MAP", 0, 0, g, << >>, 0)
UpdateUnitsMsg(t, c) == Msg("UPDATE_UNITS", 0, 0, NoGrid, t, c)

(* Observation of a handled message                                        *)
Handled(msg, outcome) == [type |-> msg.type, outcome |-> outcome]
NoMsg == [type |-> "NONE", outcome |-> "none"]

(* Observation of a frame; parity is frameCount modulo 2                   *)
NoFrame == [ran |-> FALSE, parity |-> 0, threw |-> FALSE, rescheduled |-> FALSE,
            updated |-> << >>, calls |-> << >>, ended |-> << >>, wrote |-> {}]

InitialSab ==
    [f \in SabFields |->
        CASE f = "CAMERA_X" -> 32
          [] f = "CAMERA_Y" -> 32
          [] f = "CAMERA_ZOOM" -> 1
          [] f = "SCREEN_WIDTH" -> 800
          [] f = "SCREEN_HEIGHT" -> 600
          [] f \in RenderFields -> -1
          [] OTHER -> 0]

(* Who has written a field after the channel was set up                    *)
Wrote(writers, thread, fields) ==
    [f \in SabFields |-> IF f \in fields THEN writers[f] \cup {thread} ELSE writers[f]]

----------------------------------------------------------------------------
(* Bulk buffers: the typed arrays the input thread creates. holders[b] is  *)
(* who holds a usable reference to array b, sends[b] how often it was      *)
(* posted, voidUses the arrays the sender touched after they were detached *)

NewHeap == [holders |-> << >>, sends |-> << >>, voidUses |-> {}]

(* One statement of a sender on the array it holds (cur; 0 before create)  *)
Step(st, op) ==
    LET h == st.heap
        cur == st.cur
    IN  CASE op = "create" ->
               [heap |-> [h EXCEPT !.holders = Append(@, {"input"}),
                                   !.sends = Append(@, 0)],
                cur |-> Len(h.holders) + 1]
          [] op = "access" ->
               [heap |-> IF "input" \in h.holders[cur] THEN h
                         ELSE [h EXCEPT !.voidUses = @ \cup {cur}],
                cur |-> cur]
          [] op = "post" ->
               [heap |-> [h EXCEPT !.holders[cur] = (@ \ {"input"}) \cup {"message"},
                                   !.sends[cur] = @ + 1],
                cur |-> cur]

RECURSIVE Run(_, _, _)
Run(st, steps, i) ==
    IF i > Len(steps) THEN st ELSE Run(Step(st, steps[i]), steps, i + 1)

(* The statements of each sender, in program order                         *)
getRenderDataSteps == <<"create", "access">>
syncToWorkerSteps == <<"create", "access">>
updateMapStepsLogged == <<"access", "post", "access">>
updateMapSteps == <<"access", "post">>
updateUnitsSteps == <<"access", "post">>
InitMapSteps == getRenderDataSteps \o <<"access", "post">>
syncMapSteps == getRenderDataSteps \o updateMapSteps
syncUnitsSteps == syncToWorkerSteps \o updateUnitsSteps

(* The worker's handler returns: the message no longer holds the array; a  *)
(* manager that applied it holds it and has let go of the one it replaced  *)
Receipt(h, buffer, manager, applied) ==
    [h EXCEPT !.holders =
        [b \in DOMAIN h.holders |->
            LET afterMessage == IF b = buffer THEN h.holders[b] \ {"message"}
                                ELSE h.holders[b]
            IN  IF ~applied THEN afterMessage
                ELSE IF b = buffer THEN afterMessage \cup {manager}
                ELSE afterMessage \ {manager}]]

----------------------------------------------------------------------------
(* The input thread's world state: WorldContainer and UnitRegistry *)

WARRIOR == 0
SELECTED == 1

NewWorldContainer == [mapSize |-> 64, terrain |-> 1]
WorldContainer_getRenderData(world) == Grid(world.mapSize * world.mapSize, world.terrain)
WorldContainer_getMapSize(world) == world.mapSize

(* units is the Map's values and dirtyUnits the Set's members, both in     *)
(* insertion order                                                         *)
NewUnitRegistry == [units |-> << >>, dirtyUnits |-> << >>, nextUnitId |-> 1]

SetAdd(seq, v) == IF \E i \in DOMAIN seq : seq[i] = v THEN seq ELSE Append(seq, v)

addUnit(reg, unitType, x, y) ==
    [reg EXCEPT !.units = Append(@, [id |-> reg.nextUnitId, x |-> x, y |-> y,
                                     unitType |-> unitType, state |-> 0]),
                !.dirtyUnits = SetAdd(@, reg.nextUnitId),
                !.nextUnitId = @ + 1]

(* addUnit with the optional id of its argument: id = unit.id ??           *)
(* this.nextUnitId++, then units.set(id, fullUnit), which replaces the     *)
(* value of a key the Map already has and keeps the key's place, and       *)
(* dirtyUnits.add(id).  [registry, id]                                     *)
UnitRegistry_addUnit(reg, unitId, unitType, x, y) ==
    LET id == IF IsNull(unitId) THEN reg.nextUnitId ELSE Val(unitId)
        fullUnit == [id |-> id, x |-> x, y |-> y, unitType |-> unitType, state |-> 0]
    IN  [registry |->
            [reg EXCEPT !.units = IF \E i \in DOMAIN @ : @[i].id = id
                                  THEN [i \in DOMAIN @ |->
                                           IF @[i].id = id THEN fullUnit ELSE @[i]]
                                  ELSE Append(@, fullUnit),
                        !.dirtyUnits = SetAdd(@, id),
                        !.nextUnitId = IF IsNull(unitId) THEN @ + 1 ELSE @],
         id |-> id]

(* units.delete(id), and dirtyUnits.add(id) when a unit was deleted.       *)
(* [registry, removed]                                                     *)
removeUnit(reg, id) ==
    LET removed == \E i \in DOMAIN reg.units : reg.units[i].id = id
    IN  [registry |->
            IF removed
            THEN [reg EXCEPT !.units = SelectSeq(@, LAMBDA u : u.id # id),
                             !.dirtyUnits = SetAdd(@, id)]
            ELSE reg,
         removed |-> removed]

moveUnit(reg, id, x, y) ==
    IF \E i \in DOMAIN reg.units :
           reg.units[i].id = id /\ (reg.units[i].x # x \/ reg.units[i].y # y)
    THEN [reg EXCEPT !.units = [i \in DOMAIN reg.units |->
                                   IF reg.units[i].id = id
                                   THEN [reg.units[i] EXCEPT !.x = x, !.y = y]
                                   ELSE reg.units[i]],
                     !.dirtyUnits = SetAdd(@, id)]
    ELSE reg

(* state |= flag or state &= ~flag, for the one-bit flag SELECTED          *)
SetFlag(state, flag, set) ==
    LET has == (state \div flag) % 2 = 1
    IN  IF set THEN (IF has THEN state ELSE state + flag)
        ELSE (IF has THEN state - flag ELSE state)

setUnitState(reg, id, flag, set) ==
    [reg EXCEPT !.units = [i \in DOMAIN reg.units |->
                              IF reg.units[i].id = id
                              THEN [reg.units[i] EXCEPT !.state = SetFlag(@, flag, set)]
                              ELSE reg.units[i]],
                !.dirtyUnits = IF \E i \in DOMAIN reg.units :
                                      /\ reg.units[i].id = id
                                      /\ SetFlag(reg.units[i].state, flag, set)
                                            # reg.units[i].state
                                THEN SetAdd(@, id) ELSE @]

clearDirty(reg) == [reg EXCEPT !.dirtyUnits = << >>]

UnitRegistry_getUnitCount(reg) == Len(reg.units)

RECURSIVE Flatten(_, _)
Flatten(records, i) ==
    IF i > Len(records) THEN << >> ELSE records[i] \o Flatten(records, i + 1)

(* units.get(id) for an id in the registry                                 *)
getUnit(reg, id) == reg.units[CHOOSE i \in DOMAIN reg.units : reg.units[i].id = id]

syncToWorker(reg, onlyDirty) ==
    LET present == SelectSeq(reg.dirtyUnits,
                             LAMBDA id : \E i \in DOMAIN reg.units : reg.units[i].id = id)
        unitsToSync == IF onlyDirty
                       THEN [k \in DOMAIN present |-> getUnit(reg, present[k])]
                       ELSE reg.units
    IN  Flatten([i \in DOMAIN unitsToSync |->
                    <<unitsToSync[i].id, unitsToSync[i].x, unitsToSync[i].y,
                      unitsToSync[i].unitType, unitsToSync[i].state>>], 1)

----------------------------------------------------------------------------
(* The camera arithmetic of the input thread (input.ts).  Its numbers are  *)
(* exact rationals n/d in lowest terms with d > 0, so that the divisions   *)
(* of the source are computed, not rounded.                                *)

RECURSIVE GCD(_, _)
GCD(a, b) == IF b = 0 THEN a ELSE GCD(b, a % b)

Abs(x) == IF x < 0 THEN -x ELSE x

Rat(n, d) ==
    LET g == GCD(Abs(n), Abs(d))
        s == IF d < 0 THEN -1 ELSE 1
    IN  [n |-> (s * n) \div g, d |-> (s * d) \div g]

RInt(i) == [n |-> i, d |-> 1]
RAdd(a, b) == Rat(a.n * b.d + b.n * a.d, a.d * b.d)
RSub(a, b) == Rat(a.n * b.d - b.n * a.d, a.d * b.d)
RMul(a, b) == Rat(a.n * b.n, a.d * b.d)
RDiv(a, b) == Rat(a.n * b.d, a.d * b.n)
RNeg(a) == [n |-> -a.n, d |-> a.d]
RLe(a, b) == a.n * b.d <= b.n * a.d
RLt(a, b) == a.n * b.d < b.n * a.d
(* Math.max and Math.min                                                   *)
RMax(a, b) == IF RLt(a, b) THEN b ELSE a
RMin(a, b) == IF RLt(b, a) THEN b ELSE a

(* PAN_SPEED = 5.0, in world units per second                              *)
PAN_SPEED == 5
MAP_SIZE == 64
MIN_VISIBLE_TILES == 4
MAX_VISIBLE_TILES == MAP_SIZE

(* screenToWorld without the flip of the Y axis                           *)
screenToWorldUnflipped(screenX, screenY, camX, camY, zoom, screenWidth, screenHeight) ==
    LET ndcX == RSub(RMul(RDiv(screenX, screenWidth), RInt(2)), RInt(1))
        ndcY == RSub(RMul(RDiv(screenY, screenHeight), RInt(2)), RInt(1))
        aspectRatio == RDiv(screenWidth, screenHeight)
        worldSizeY == RDiv(RInt(2), zoom)
        worldSizeX == RMul(worldSizeY, aspectRatio)
    IN  <<RAdd(RMul(ndcX, RMul(worldSizeX, Rat(1, 2))), camX),
          RAdd(RMul(ndcY, RMul(worldSizeY, Rat(1, 2))), camY)>>

(* screenToWorld: the world position under a screen position               *)
screenToWorld(screenX, screenY, camX, camY, zoom, screenWidth, screenHeight) ==
    LET ndcX == RSub(RMul(RDiv(screenX, screenWidth), RInt(2)), RInt(1))
        ndcY == RNeg(RSub(RMul(RDiv(screenY, screenHeight), RInt(2)), RInt(1)))
        aspectRatio == RDiv(screenWidth, screenHeight)
        worldSizeY == RDiv(RInt(2), zoom)
        worldSizeX == RMul(worldSizeY, aspectRatio)
        worldX == RAdd(RMul(ndcX, RMul(worldSizeX, Rat(1, 2))), camX)
        worldY == RAdd(RMul(ndcY, RMul(worldSizeY, Rat(1, 2))), camY)
    IN  <<worldX, worldY>>

(* The limits taken square, without the aspect ratio                       *)
calculateZoomLimitsSquare(screenWidth, screenHeight, mapSize, minTiles, maxTiles) ==
    <<RDiv(RInt(2), maxTiles), RDiv(RInt(2), minTiles)>>

(* calculateZoomLimits: <<minZoom, maxZoom>>                               *)
calculateZoomLimits(screenWidth, screenHeight, mapSize, minTiles, maxTiles) ==
    LET aspectRatio == RDiv(screenWidth, screenHeight)
        maxZoomWorldSizeY == IF RLe(RInt(1), aspectRatio)
                             THEN minTiles ELSE RDiv(minTiles, aspectRatio)
        maxZoom == RDiv(RInt(2), maxZoomWorldSizeY)
        minZoomWorldSizeY == IF RLe(RInt(1), aspectRatio)
                             THEN RDiv(maxTiles, aspectRatio) ELSE maxTiles
        minZoom == RDiv(RInt(2), minZoomWorldSizeY)
    IN  <<minZoom, maxZoom>>

(* A clamp that always centres                                             *)
clampCameraToCentre(camX, camY, zoom, screenWidth, screenHeight, mapSize) ==
    <<RMul(mapSize, Rat(1, 2)), RMul(mapSize, Rat(1, 2))>>

(* clampCameraToBounds: the camera position kept to the map                *)
clampCameraToBounds(camX, camY, zoom, screenWidth, screenHeight, mapSize) ==
    LET aspectRatio == RDiv(screenWidth, screenHeight)
        worldSizeY == RDiv(RInt(2), zoom)
        worldSizeX == RMul(worldSizeY, aspectRatio)
        halfWorldSizeX == RMul(worldSizeX, Rat(1, 2))
        halfWorldSizeY == RMul(worldSizeY, Rat(1, 2))
        clampedX == IF RLe(mapSize, halfWorldSizeX)
                    THEN RMul(mapSize, Rat(1, 2))
                    ELSE RMax(halfWorldSizeX, RMin(RSub(mapSize, halfWorldSizeX), camX))
        clampedY == IF RLe(mapSize, halfWorldSizeY)
                    THEN RMul(mapSize, Rat(1, 2))
                    ELSE RMax(halfWorldSizeY, RMin(RSub(mapSize, halfWorldSizeY), camY))
    IN  <<clampedX, clampedY>>

(* The last call of clampCameraToBounds by a handler: its arguments, its   *)
(* result, and for a wheel event the limits and the wheel's deltaY         *)
NoCameraCall ==
    [event |-> "none", camX |-> RInt(0), camY |-> RInt(0), zoom |-> RInt(1),
     screenWidth |-> 1, screenHeight |-> 1, outX |-> RInt(0), outY |-> RInt(0),
     minZoom |-> RInt(0), maxZoom |-> RInt(0), deltaY |-> 0]

(* The wheel listener on the view of the shared channel                    *)
onWheel(view, deltaY) ==
    LET currentZoom == view["CAMERA_ZOOM"]
        currentCamX == view["CAMERA_X"]
        currentCamY == view["CAMERA_Y"]
        screenWidth == RInt(view["SCREEN_WIDTH"])
        screenHeight == RInt(view["SCREEN_HEIGHT"])
        mouseScreenX == RInt(view["MOUSE_WORLD_X"])
        mouseScreenY == RInt(view["MOUSE_WORLD_Y"])
        world == screenToWorld(mouseScreenX, mouseScreenY, currentCamX, currentCamY,
                               currentZoom, screenWidth, screenHeight)
        limits == calculateZoomLimits(screenWidth, screenHeight, RInt(MAP_SIZE),
                                      RInt(MIN_VISIBLE_TILES), RInt(MAX_VISIBLE_TILES))
        minZoom == limits[1]
        maxZoom == limits[2]
        zoomDelta == Rat(-deltaY, 1000)
        newZoom == RMax(minZoom, RMin(maxZoom, RAdd(currentZoom, zoomDelta)))
        ndcRawX == RSub(RMul(RDiv(mouseScreenX, screenWidth), RInt(2)), RInt(1))
        ndcRawY == RSub(RMul(RDiv(mouseScreenY, screenHeight), RInt(2)), RInt(1))
        ndcX == ndcRawX
        ndcY == RNeg(ndcRawY)
        aspectRatio == RDiv(screenWidth, screenHeight)
        newWorldSizeY == RDiv(RInt(2), newZoom)
        newWorldSizeX == RMul(newWorldSizeY, aspectRatio)
        newCamX == RSub(world[1], RMul(ndcX, RMul(newWorldSizeX, Rat(1, 2))))
        newCamY == RSub(world[2], RMul(ndcY, RMul(newWorldSizeY, Rat(1, 2))))
        clamped == clampCameraToBounds(newCamX, newCamY, newZoom, screenWidth,
                                       screenHeight, RInt(MAP_SIZE))
    IN  [event |-> "wheel", camX |-> newCamX, camY |-> newCamY, zoom |-> newZoom,
         screenWidth |-> view["SCREEN_WIDTH"], screenHeight |-> view["SCREEN_HEIGHT"],
         outX |-> clamped[1], outY |-> clamped[2],
         minZoom |-> minZoom, maxZoom |-> maxZoom, deltaY |-> deltaY]

(* One turn of panLoop with the arrow keys held giving (panX, panY), not   *)
(* both zero, deltaTime seconds after the turn before                      *)
panLoop(view, panX, panY, deltaTime) ==
    LET currentCamX == view["CAMERA_X"]
        currentCamY == view["CAMERA_Y"]
        zoom == view["CAMERA_ZOOM"]
        screenWidth == RInt(view["SCREEN_WIDTH"])
        screenHeight == RInt(view["SCREEN_HEIGHT"])
        zoomMultiplier == RDiv(RInt(1), zoom)
        panDeltaX == RMul(RMul(RMul(RInt(panX), RInt(PAN_SPEED)), deltaTime), zoomMultiplier)
        panDeltaY == RMul(RMul(RMul(RInt(panY), RInt(PAN_SPEED)), deltaTime), zoomMultiplier)
        newCamX == RAdd(currentCamX, panDeltaX)
        newCamY == RAdd(currentCamY, panDeltaY)
        clamped == clampCameraToBounds(newCamX, newCamY, zoom, screenWidth,
                                       screenHeight, RInt(MAP_SIZE))
    IN  [event |-> "pan", camX |-> newCamX, camY |-> newCamY, zoom |-> zoom,
         screenWidth |-> view["SCREEN_WIDTH"], screenHeight |-> view["SCREEN_HEIGHT"],
         outX |-> clamped[1], outY |-> clamped[2],
         minZoom |-> RInt(0), maxZoom |-> RInt(0), deltaY |-> 0]

NoClick == [handled |-> FALSE, x |-> 0, y |-> 0, inOverlay |-> FALSE]
(* Observation of an animation frame of the input thread                   *)
NoAnimationFrame == [callbacks |-> 0, syncs |-> 0, onlyDirtyUnits |-> FALSE]

(* frameCallbacks are the requestAnimationFrame callbacks not yet run or    *)
(* cancelled, each with the argument its closure captured                  *)
NewMain == [world |-> NewWorldContainer, registry |-> NewUnitRegistry,
            timers |-> << >>, lastClick |-> NoClick,
            syncPending |-> FALSE, syncScheduled |-> Null,
            frameCallbacks |-> << >>, nextHandle |-> 1,
            lastAnimationFrame |-> NoAnimationFrame,
            lastCameraCall |-> NoCameraCall]

----------------------------------------------------------------------------
(* The input thread *)

(* init(): worker.postMessage({type: 'INIT', canvas, sab})                 *)
PostInit ==
    /\ ~mainSentInit
    /\ mainSentInit' = TRUE
    /\ inbox' = Append(inbox, InitMsg)
    /\ UNCHANGED <<heap, main, now, workerPhase, canvas, mapManager, entityManager,
                   viewManager, sab, sabWriters, lastMsg, lastFrame, dropped>>

Post(msg) ==
    /\ mainSentInit
    /\ Len(inbox) < MaxQueue
    /\ inbox' = Append(inbox, msg)

(* worker.postMessage({type: 'UPDATE_MAP', data: mapData}, [mapData.buffer]) *)
PostUpdateMap(grids) ==
    /\ \E g \in grids : Post(UpdateMapMsg(g))
    /\ UNCHANGED <<heap, main, now, mainSentInit, workerPhase, canvas, mapManager,
                   entityManager, viewManager, sab, sabWriters, lastMsg,
                   lastFrame, dropped>>

(* worker.postMessage({type: 'UPDATE_UNITS', unitData, unitCount}, ...)    *)
PostUpdateUnits(tables) ==
    /\ \E t \in tables : \E c \in DeclaredCounts(t) : Post(UpdateUnitsMsg(t, c))
    /\ UNCHANGED <<heap, main, now, mainSentInit, workerPhase, canvas, mapManager,
                   entityManager, viewManager, sab, sabWriters, lastMsg,
                   lastFrame, dropped>>

(* The resize listener: publish the new size, then post RESIZE             *)
PostResize(sizes) ==
    /\ \E size \in sizes :
         /\ Post(ResizeMsg(size[1], size[2]))
         /\ sab' = [sab EXCEPT !["SCREEN_WIDTH"] = size[1],
                               !["SCREEN_HEIGHT"] = size[2]]
    /\ sabWriters' = Wrote(sabWriters, "input", {"SCREEN_WIDTH", "SCREEN_HEIGHT"})
    /\ UNCHANGED <<heap, main, now, mainSentInit, workerPhase, canvas, mapManager,
                   entityManager, viewManager, lastMsg, lastFrame, dropped>>

(* mousemove, mousedown, mouseup listeners of setupInput                   *)
MouseMove(points) ==
    /\ \E pt \in points :
         sab' = [sab EXCEPT !["MOUSE_WORLD_X"] = pt[1], !["MOUSE_WORLD_Y"] = pt[2]]
    /\ sabWriters' = Wrote(sabWriters, "input", {"MOUSE_WORLD_X", "MOUSE_WORLD_Y"})
    /\ UNCHANGED <<heap, main, now, inbox, mainSentInit, workerPhase, canvas, mapManager,
                   entityManager, viewManager, lastMsg, lastFrame, dropped>>

MouseButton ==
    /\ \E down \in {0, 1} : sab' = [sab EXCEPT !["IS_MOUSE_DOWN"] = down]
    /\ sabWriters' = Wrote(sabWriters, "input", {"IS_MOUSE_DOWN"})
    /\ UNCHANGED <<heap, main, now, inbox, mainSentInit, workerPhase, canvas, mapManager,
                   entityManager, viewManager, lastMsg, lastFrame, dropped>>

(* The clock *)
Tick ==
    /\ now < MaxTime
    /\ now' = now + 1
    /\ UNCHANGED <<heap, main, inbox, mainSentInit, workerPhase, canvas, mapManager,
                   entityManager, viewManager, sab, sabWriters, lastMsg,
                   lastFrame, dropped>>

----------------------------------------------------------------------------
(* The worker: self.onmessage, startRendering, frame *)

Receive(type) ==
    /\ inbox # << >>
    /\ Head(inbox).type = type
    /\ inbox' = Tail(inbox)

(* INIT: store canvas and channel, run startRendering up to its await      *)
OnInit ==
    /\ Receive("INIT")
    /\ workerPhase = "idle"
    /\ canvas' = Some([width |-> Head(inbox).width, height |-> Head(inbox).height])
    /\ workerPhase' = "initializing"
    /\ lastMsg' = Handled(Head(inbox), "applied")
    /\ UNCHANGED <<heap, main, now, mainSentInit, mapManager, entityManager, viewManager,
                   sab, sabWriters, lastFrame, dropped>>

(* The layers startRendering adds, in order                                *)
WorkerLayers == <<NewLayer("world", Null), NewLayer("unit", Null),
                  NewLayer("minimap", Null)>>

RECURSIVE AddAll(_, _, _, _)
AddAll(vm, layers, i, cv) ==
    IF i > Len(layers) THEN vm
    ELSE AddAll(ViewManager_add(vm, layers[i], cv), layers, i + 1, cv)

(* startRendering after tgpu.init() resolves: managers, compositor, layers *)
(* and the first requestAnimationFrame                                     *)
StartRendering ==
    /\ workerPhase = "initializing"
    /\ mapManager' = Some(MapManager_init(NewMapManager))
    /\ entityManager' = Some(EntityManager_init(NewEntityManager))
    /\ viewManager' = Some(AddAll(ViewManager_init(NewViewManager),
                                  WorkerLayers, 1, Val(canvas)))
    /\ workerPhase' = "running"
    /\ UNCHANGED <<heap, main, now, inbox, mainSentInit, canvas, sab, sabWriters, lastMsg,
                   lastFrame, dropped>>

(* RESIZE: resize the OffscreenCanvas                                      *)
OnResize ==
    /\ Receive("RESIZE")
    /\ ~IsNull(canvas)
    /\ LET msg == Head(inbox)
       IN  /\ canvas' = IF msg.width # 0 /\ msg.height # 0
                        THEN Some([width |-> msg.width, height |-> msg.height])
                        ELSE canvas
           /\ lastMsg' = Handled(msg, "applied")
    /\ UNCHANGED <<heap, main, now, mainSentInit, workerPhase, mapManager, entityManager,
                   viewManager, sab, sabWriters, lastFrame, dropped>>

(* The outcome of the UPDATE_MAP branch: [mm, outcome]                     *)
HandleUpdateMap(mmRef, data) ==
    LET mapSize == IntegerSqrt(data.length)
    IN  IF data = NoGrid THEN [mm |-> mmRef, outcome |-> "rejected"]
        ELSE IF mapSize = -1 THEN [mm |-> mmRef, outcome |-> "rejected"]
        ELSE IF IsNull(mmRef) THEN [mm |-> mmRef, outcome |-> "dropped"]
        ELSE LET mm2 == updateMapData(Val(mmRef), data, mapSize)
             IN  [mm |-> Some(mm2),
                  outcome |-> IF mm2.currentTileData = Some(data)
                              THEN "applied" ELSE "rejected"]

OnUpdateMap ==
    /\ Receive("UPDATE_MAP")
    /\ LET msg == Head(inbox)
           r == HandleUpdateMap(mapManager, msg.data)
       IN  /\ MapBufferCreations(IF IsNull(r.mm) THEN NewMapManager ELSE Val(r.mm))
                 <= MaxVersion
           /\ mapManager' = r.mm
           /\ lastMsg' = Handled(msg, r.outcome)
           /\ dropped' = IF r.outcome = "dropped"
                         THEN dropped \cup {"UPDATE_MAP"} ELSE dropped
           /\ heap' = Receipt(heap, msg.buffer, "mapManager", r.outcome = "applied")
    /\ UNCHANGED <<main, now, mainSentInit, workerPhase, canvas, entityManager,
                   viewManager, sab, sabWriters, lastFrame>>

(* The outcome of the UPDATE_UNITS branch: [em, outcome]                   *)
HandleUpdateUnits(emRef, unitData, unitCount, t) ==
    IF UnitSizeMismatch(unitData, unitCount)
    THEN [em |-> emRef, outcome |-> "rejected"]
    ELSE IF IsNull(emRef) THEN [em |-> emRef, outcome |-> "dropped"]
    ELSE LET em2 == updateUnitData(Val(emRef), unitData, unitCount, t)
         IN  [em |-> Some(em2),
              outcome |-> IF em2.currentUnitData = Some(unitData)
                          THEN "applied" ELSE "rejected"]

OnUpdateUnits ==
    /\ Receive("UPDATE_UNITS")
    /\ LET msg == Head(inbox)
           r == HandleUpdateUnits(entityManager, msg.unitData, msg.unitCount, now)
       IN  /\ (IF IsNull(r.em) THEN 0 ELSE Val(r.em).bufferVersion) <= MaxVersion
           /\ entityManager' = r.em
           /\ lastMsg' = Handled(msg, r.outcome)
           /\ dropped' = IF r.outcome = "dropped"
                         THEN dropped \cup {"UPDATE_UNITS"} ELSE dropped
           /\ heap' = Receipt(heap, msg.buffer, "entityManager",
                              r.outcome = "applied")
    /\ UNCHANGED <<main, now, mainSentInit, workerPhase, canvas, mapManager,
                   viewManager, sab, sabWriters, lastFrame>>

(* One run of frame(): hovered tile, update, render, submit, and the next  *)
(* requestAnimationFrame unless an exception ended the callback first      *)
Frame ==
    /\ workerPhase = "running"
    /\ LET mm == Val(mapManager)
           ch == calculateHoveredTile([sab |-> sab, wrote |-> {}])
           u == ViewManager_update(Val(viewManager),
                                   [sab |-> ch.sab, wrote |-> ch.wrote,
                                    em |-> Val(entityManager)],
                                   mm, Val(canvas), now)
           r == ViewManager_render(u.vm, mm, u.fs.em)
       IN  /\ viewManager' = Some(r.vm)
           /\ entityManager' = Some(u.fs.em)
           /\ sab' = u.fs.sab
           /\ sabWriters' = Wrote(sabWriters, "render", u.fs.wrote)
           /\ workerPhase' = IF r.threw THEN "stopped" ELSE "running"
           /\ lastFrame' = [ran |-> TRUE, parity |-> 1 - lastFrame.parity,
                            threw |-> r.threw,
                            rescheduled |-> ~r.threw, updated |-> u.updated,
                            calls |-> r.calls, ended |-> r.ended,
                            wrote |-> u.fs.wrote]
    /\ UNCHANGED <<heap, main, now, inbox, mainSentInit, canvas, mapManager, lastMsg, dropped>>

----------------------------------------------------------------------------
(* The worker as index.ts and render.worker.ts wire it *)

Init ==
    /\ now = 0
    /\ inbox = << >>
    /\ mainSentInit = FALSE
    /\ workerPhase = "idle"
    /\ canvas = Null
    /\ mapManager = Null
    /\ entityManager = Null
    /\ viewManager = Null
    /\ sab = InitialSab
    /\ sabWriters = [f \in SabFields |-> {}]
    /\ lastMsg = NoMsg
    /\ lastFrame = NoFrame
    /\ dropped = {}
    /\ heap = NewHeap
    /\ main = NewMain

WorkerGrids == {Grid(4096, 0), Grid(8, 0)}
WorkerTables == {<< >>, <<0, 0, 1, 0>>, <<3, 0, 1, 0>>}

Next ==
    \/ PostInit
    \/ PostUpdateMap(WorkerGrids)
    \/ PostUpdateUnits(WorkerTables)
    \/ OnInit
    \/ StartRendering
    \/ OnUpdateMap
    \/ OnUpdateUnits
    \/ Frame

Spec == Init /\ [][Next]_vars

----------------------------------------------------------------------------
(* The map path alone: grids of several sizes, no entity tables *)

MapGrids == {Grid(4096, 0), Grid(1024, 0), Grid(64, 0), Grid(8, 0), Grid(4096, 1)}

NextMap ==
    \/ PostInit
    \/ PostUpdateMap(MapGrids)
    \/ OnInit
    \/ StartRendering
    \/ OnUpdateMap
    \/ Frame

SpecMap == Init /\ [][NextMap]_vars

----------------------------------------------------------------------------
(* The entity path: the worker is running and holds a 64 x 64 grid (the    *)
(* state after INIT, startRendering and one UPDATE_MAP), entity tables     *)
(* arrive while the clock runs and frames are drawn                        *)

InitEntities ==
    /\ now = 0
    /\ inbox = << >>
    /\ mainSentInit = TRUE
    /\ workerPhase = "running"
    /\ canvas = Some([width |-> 800, height |-> 600])
    /\ mapManager = Some(updateMapData(MapManager_init(NewMapManager),
                                       Grid(4096, 0), 64))
    /\ entityManager = Some(EntityManager_init(NewEntityManager))
    /\ viewManager = Some(AddAll(ViewManager_init(NewViewManager), WorkerLayers, 1,
                                 [width |-> 800, height |-> 600]))
    /\ sab = InitialSab
    /\ sabWriters = [f \in SabFields |-> {}]
    /\ lastMsg = [type |-> "UPDATE_MAP", outcome |-> "applied"]
    /\ lastFrame = NoFrame
    /\ dropped = {}
    /\ heap = NewHeap
    /\ main = NewMain

NextEntities ==
    \/ PostUpdateUnits(AllTables)
    \/ OnUpdateUnits
    \/ Tick
    \/ Frame

SpecEntities == InitEntities /\ [][NextEntities]_vars

----------------------------------------------------------------------------
(* The shared-state channel: both threads write it while frames run *)

WindowSizes == {<<800, 600>>, <<400, 300>>}
PointerPositions == {<<20, 20>>, <<500, 500>>, <<60, 20>>}

NextChannel ==
    \/ PostInit
    \/ OnInit
    \/ StartRendering
    \/ PostUpdateMap(WorkerGrids)
    \/ OnUpdateMap
    \/ PostResize(WindowSizes)
    \/ OnResize
    \/ MouseMove(PointerPositions)
    \/ MouseButton
    \/ Frame

SpecChannel == Init /\ [][NextChannel]_vars

----------------------------------------------------------------------------
(* The senders of bulk buffers: init's timer, GameStateCoordinator and     *)
(* WorkerBridge, with a registry that gameplay code fills and changes      *)

MaxBuffers == 4
MaxRegistry == 2
RegistryTiles == {<<0, 0>>, <<3, 0>>}

(* init's timer: getRenderData(), then postMessage({type, data}, [buffer]) *)
SendInitialMap ==
    /\ Len(heap.holders) < MaxBuffers
    /\ LET st == Run([heap |-> heap, cur |-> 0], InitMapSteps, 1)
       IN  /\ Post([UpdateMapMsg(WorldContainer_getRenderData(main.world))
                       EXCEPT !.buffer = st.cur])
           /\ heap' = st.heap
    /\ UNCHANGED <<main, now, mainSentInit, workerPhase, canvas, mapManager,
                   entityManager, viewManager, sab, sabWriters, lastMsg,
                   lastFrame, dropped>>

(* WorkerBridge.updateMap: the message {type, tileData, mapSize}           *)
updateMap(tileData, mapSize, buffer) ==
    [Msg("UPDATE_MAP", 0, 0, NoGrid, << >>, 0)
        EXCEPT !.tileData = tileData, !.mapSize = mapSize, !.buffer = buffer]

(* WorkerBridge.updateUnits: the message {type, unitData, unitCount}       *)
updateUnits(unitData, unitCount, buffer) ==
    [UpdateUnitsMsg(unitData, unitCount) EXCEPT !.buffer = buffer]

(* GameStateCoordinator.syncMap                                            *)
syncMap ==
    /\ Len(heap.holders) < MaxBuffers
    /\ LET st == Run([heap |-> heap, cur |-> 0], syncMapSteps, 1)
       IN  /\ Post(updateMap(WorldContainer_getRenderData(main.world),
                             WorldContainer_getMapSize(main.world), st.cur))
           /\ heap' = st.heap
    /\ UNCHANGED <<main, now, mainSentInit, workerPhase, canvas, mapManager,
                   entityManager, viewManager, sab, sabWriters, lastMsg,
                   lastFrame, dropped>>

(* GameStateCoordinator.syncUnits(onlyDirty)                               *)
syncUnits ==
    /\ Len(heap.holders) < MaxBuffers
    /\ \E onlyDirty \in BOOLEAN :
         LET st == Run([heap |-> heap, cur |-> 0], syncUnitsSteps, 1)
         IN  /\ Post(updateUnits(syncToWorker(main.registry, onlyDirty),
                                 UnitRegistry_getUnitCount(main.registry), st.cur))
             /\ heap' = st.heap
             /\ main' = IF onlyDirty
                        THEN [main EXCEPT !.registry = clearDirty(@)]
                        ELSE main
    /\ UNCHANGED <<now, mainSentInit, workerPhase, canvas, mapManager,
                   entityManager, viewManager, sab, sabWriters, lastMsg,
                   lastFrame, dropped>>

(* Gameplay code: unitRegistry.addUnit, unitRegistry.moveUnit              *)
AddUnit ==
    /\ Len(main.registry.units) < MaxRegistry
    /\ \E tile \in RegistryTiles :
         main' = [main EXCEPT !.registry = addUnit(@, WARRIOR, tile[1], tile[2])]
    /\ UNCHANGED <<heap, now, inbox, mainSentInit, workerPhase, canvas, mapManager,
                   entityManager, viewManager, sab, sabWriters, lastMsg,
                   lastFrame, dropped>>

MoveUnit ==
    /\ \E i \in DOMAIN main.registry.units : \E tile \in RegistryTiles :
         /\ moveUnit(main.registry, main.registry.units[i].id, tile[1], tile[2])
               # main.registry
         /\ main' = [main EXCEPT !.registry =
                        moveUnit(@, main.registry.units[i].id, tile[1], tile[2])]
    /\ UNCHANGED <<heap, now, inbox, mainSentInit, workerPhase, canvas, mapManager,
                   entityManager, viewManager, sab, sabWriters, lastMsg,
                   lastFrame, dropped>>

(* The worker is running with both managers initialised and no data yet    *)
InitBridge ==
    /\ now = 0
    /\ inbox = << >>
    /\ mainSentInit = TRUE
    /\ workerPhase = "running"
    /\ canvas = Some([width |-> 800, height |-> 600])
    /\ mapManager = Some(MapManager_init(NewMapManager))
    /\ entityManager = Some(EntityManager_init(NewEntityManager))
    /\ viewManager = Some(AddAll(ViewManager_init(NewViewManager), WorkerLayers, 1,
                                 [width |-> 800, height |-> 600]))
    /\ sab = InitialSab
    /\ sabWriters = [f \in SabFields |-> {}]
    /\ lastMsg = [type |-> "INIT", outcome |-> "applied"]
    /\ lastFrame = NoFrame
    /\ dropped = {}
    /\ heap = NewHeap
    /\ main = NewMain

NextBridge ==
    \/ SendInitialMap
    \/ syncMap
    \/ syncUnits
    \/ AddUnit
    \/ MoveUnit
    \/ OnUpdateMap
    \/ OnUpdateUnits
    \/ Frame

SpecBridge == InitBridge /\ [][NextBridge]_vars

----------------------------------------------------------------------------
(* GameStateCoordinator.scheduleSync and the animation frame that runs its *)
(* callback                                                                *)

MaxHandles == 4

(* scheduleSync without cancelAnimationFrame                               *)
scheduleSyncNoCancel(m, onlyDirtyUnits) ==
    [m EXCEPT !.syncPending = TRUE,
              !.syncScheduled = Some(m.nextHandle),
              !.frameCallbacks = Append(@, [handle |-> m.nextHandle,
                                            onlyDirtyUnits |-> onlyDirtyUnits]),
              !.nextHandle = @ + 1]

scheduleSync(m, onlyDirtyUnits) ==
    LET kept == IF IsNull(m.syncScheduled) THEN m.frameCallbacks
                ELSE SelectSeq(m.frameCallbacks,
                               LAMBDA cb : cb.handle # Val(m.syncScheduled))
    IN  [m EXCEPT !.syncPending = TRUE,
                  !.syncScheduled = Some(m.nextHandle),
                  !.frameCallbacks = Append(kept, [handle |-> m.nextHandle,
                                                   onlyDirtyUnits |-> onlyDirtyUnits]),
                  !.nextHandle = @ + 1]

(* syncAll(onlyDirtyUnits): syncMap() then syncUnits(onlyDirtyUnits), on   *)
(* st = [heap, main, posted]                                               *)
syncAll(st, onlyDirtyUnits) ==
    LET a == Run([heap |-> st.heap, cur |-> 0], syncMapSteps, 1)
        mapMsg == updateMap(WorldContainer_getRenderData(st.main.world),
                            WorldContainer_getMapSize(st.main.world), a.cur)
        b == Run([heap |-> a.heap, cur |-> 0], syncUnitsSteps, 1)
        unitsMsg == updateUnits(syncToWorker(st.main.registry, onlyDirtyUnits),
                                UnitRegistry_getUnitCount(st.main.registry), b.cur)
    IN  [heap |-> b.heap,
         main |-> IF onlyDirtyUnits
                  THEN [st.main EXCEPT !.registry = clearDirty(@)]
                  ELSE st.main,
         posted |-> st.posted \o <<mapMsg, unitsMsg>>]

(* The callbacks of one animation frame, in the order they were requested  *)
RECURSIVE RunFrameCallbacks(_, _, _)
RunFrameCallbacks(st, callbacks, i) ==
    IF i > Len(callbacks) THEN st
    ELSE LET synced == IF st.main.syncPending
                       THEN syncAll(st, callbacks[i].onlyDirtyUnits)
                       ELSE st
             seen == st.main.lastAnimationFrame
         IN  RunFrameCallbacks(
                 [synced EXCEPT
                     !.main.syncPending = FALSE,
                     !.main.syncScheduled = Null,
                     !.main.lastAnimationFrame =
                         [callbacks |-> seen.callbacks + 1,
                          syncs |-> seen.syncs + (IF st.main.syncPending THEN 1 ELSE 0),
                          onlyDirtyUnits |-> IF st.main.syncPending
                                             THEN callbacks[i].onlyDirtyUnits
                                             ELSE seen.onlyDirtyUnits]],
                 callbacks, i + 1)

(* Gameplay code calls coordinator.scheduleSync(onlyDirtyUnits)            *)
ScheduleSync ==
    /\ main.nextHandle < MaxHandles
    /\ \E onlyDirtyUnits \in BOOLEAN : main' = scheduleSync(main, onlyDirtyUnits)
    /\ UNCHANGED <<heap, now, inbox, mainSentInit, workerPhase, canvas, mapManager,
                   entityManager, viewManager, sab, sabWriters, lastMsg,
                   lastFrame, dropped>>

(* The input thread's next animation frame                                 *)
AnimationFrame ==
    /\ Len(inbox) < MaxQueue
    /\ Len(heap.holders) + 2 <= MaxBuffers
    /\ LET st == RunFrameCallbacks(
                     [heap |-> heap,
                      main |-> [main EXCEPT !.frameCallbacks = << >>,
                                            !.lastAnimationFrame = NoAnimationFrame],
                      posted |-> << >>],
                     main.frameCallbacks, 1)
       IN  /\ heap' = st.heap
           /\ main' = st.main
           /\ inbox' = inbox \o st.posted
    /\ UNCHANGED <<now, mainSentInit, workerPhase, canvas, mapManager,
                   entityManager, viewManager, sab, sabWriters, lastMsg,
                   lastFrame, dropped>>

NextSync ==
    \/ ScheduleSync
    \/ AnimationFrame
    \/ AddUnit
    \/ MoveUnit
    \/ OnUpdateMap
    \/ OnUpdateUnits

SpecSync == InitBridge /\ [][NextSync]_vars

----------------------------------------------------------------------------
(* Unit selection: the mousedown listener of setupUnitSelection and the    *)
(* timer it starts, beside the button listeners of setupInput              *)

MaxTimers == 1
SelectPoints == {<<20, 20>>, <<600, 20>>}

(* Registry queries the listener calls; their class is not among the       *)
(* sources, they are modelled from their names and the calls' comments     *)
getSelectedUnits(reg) ==
    SelectSeq(reg.units, LAMBDA u : (u.state \div SELECTED) % 2 = 1)

getUnitsAt(reg, x, y) == SelectSeq(reg.units, LAMBDA u : u.x = x /\ u.y = y)

clearSelection(reg) ==
    [reg EXCEPT !.units = [i \in DOMAIN reg.units |->
                              [reg.units[i] EXCEPT !.state = SetFlag(@, SELECTED, FALSE)]]]

(* unitRegistry.syncUnits(): [x, y, typeId, state] per unit                *)
UnitRegistry_syncUnits(reg) ==
    Flatten([i \in DOMAIN reg.units |->
                <<reg.units[i].x, reg.units[i].y, reg.units[i].unitType,
                  reg.units[i].state>>], 1)

(* The pointer lies in the viewport of a visible layer that has one        *)
InOverlay(vmRef, x, y) ==
    /\ ~IsNull(vmRef)
    /\ \E i \in DOMAIN Val(vmRef).layers :
         /\ Val(vmRef).layers[i].visible
         /\ ~IsNull(Val(vmRef).layers[i].viewport)
         /\ isPointInViewport(x, y, Val(vmRef).layers[i].viewport)

(* The timer's body for a valid tile: [registry, posted]                   *)
SelectOrMove(reg, tileX, tileY) ==
    LET selectedUnits == getSelectedUnits(reg)
        unitsAtTile == getUnitsAt(reg, tileX, tileY)
    IN  IF Len(selectedUnits) > 0
        THEN LET selectedUnit == selectedUnits[1]
             IN  IF selectedUnit.x = tileX /\ selectedUnit.y = tileY
                 THEN IF Len(unitsAtTile) > 0 /\ unitsAtTile[1].id # selectedUnit.id
                      THEN [registry |-> setUnitState(clearSelection(reg),
                                                      unitsAtTile[1].id, SELECTED, TRUE),
                            posted |-> TRUE]
                      ELSE [registry |-> reg, posted |-> FALSE]
                 ELSE [registry |-> moveUnit(reg, selectedUnit.id, tileX, tileY),
                       posted |-> TRUE]
        ELSE IF Len(unitsAtTile) > 0
        THEN [registry |-> setUnitState(clearSelection(reg), unitsAtTile[1].id,
                                        SELECTED, TRUE),
              posted |-> TRUE]
        ELSE [registry |-> clearSelection(reg), posted |-> TRUE]

(* The listener's test of the published capture result                     *)
ClickIsCaptured(capturedLayerId) == capturedLayerId >= 0
ClickIsCapturedNever(capturedLayerId) == FALSE

(* A left-button press: setupInput publishes the button, the selection     *)
(* listener reads the capture result and starts its 10 ms timer            *)
MouseDown ==
    /\ sab["IS_MOUSE_DOWN"] = 0
    /\ Len(main.timers) < MaxTimers
    /\ sab' = [sab EXCEPT !["IS_MOUSE_DOWN"] = 1]
    /\ sabWriters' = Wrote(sabWriters, "input", {"IS_MOUSE_DOWN"})
    /\ main' = IF ClickIsCaptured(sab["CAPTURED_LAYER_ID"]) THEN main
               ELSE [main EXCEPT !.timers =
                        Append(@, [x |-> sab["MOUSE_WORLD_X"],
                                   y |-> sab["MOUSE_WORLD_Y"],
                                   inOverlay |-> InOverlay(viewManager,
                                                           sab["MOUSE_WORLD_X"],
                                                           sab["MOUSE_WORLD_Y"])])]
    /\ UNCHANGED <<heap, now, inbox, mainSentInit, workerPhase, canvas, mapManager,
                   entityManager, viewManager, lastMsg, lastFrame, dropped>>

MouseUp ==
    /\ sab["IS_MOUSE_DOWN"] = 1
    /\ sab' = [sab EXCEPT !["IS_MOUSE_DOWN"] = 0]
    /\ sabWriters' = Wrote(sabWriters, "input", {"IS_MOUSE_DOWN"})
    /\ UNCHANGED <<heap, main, now, inbox, mainSentInit, workerPhase, canvas,
                   mapManager, entityManager, viewManager, lastMsg, lastFrame,
                   dropped>>

(* The timer callback: read the hovered tile, select or move, and post     *)
SelectionTimer ==
    /\ main.timers # << >>
    /\ LET click == Head(main.timers)
           tileX == sab["HOVERED_TILE_X"]
           tileY == sab["HOVERED_TILE_Y"]
           r == SelectOrMove(main.registry, tileX, tileY)
       IN  IF tileX < 0 \/ tileY < 0
           THEN /\ main' = [main EXCEPT !.timers = Tail(@),
                                        !.lastClick = [handled |-> FALSE,
                                                       x |-> click.x, y |-> click.y,
                                                       inOverlay |-> click.inOverlay]]
                /\ inbox' = inbox
           ELSE /\ main' = [main EXCEPT !.timers = Tail(@),
                                        !.registry = r.registry,
                                        !.lastClick = [handled |-> TRUE,
                                                       x |-> click.x, y |-> click.y,
                                                       inOverlay |-> click.inOverlay]]
                /\ IF r.posted
                   THEN Post(UpdateUnitsMsg(UnitRegistry_syncUnits(r.registry),
                                            UnitRegistry_getUnitCount(r.registry)))
                   ELSE inbox' = inbox
    /\ UNCHANGED <<heap, now, mainSentInit, workerPhase, canvas, mapManager,
                   entityManager, viewManager, sab, sabWriters, lastMsg,
                   lastFrame, dropped>>

(* The worker is running with a 64 x 64 grid; the registry holds one unit  *)
(* at the tile under the pointer position (20, 20)                         *)
InitSelect ==
    /\ now = 0
    /\ inbox = << >>
    /\ mainSentInit = TRUE
    /\ workerPhase = "running"
    /\ canvas = Some([width |-> 800, height |-> 600])
    /\ mapManager = Some(updateMapData(MapManager_init(NewMapManager),
                                       Grid(4096, 0), 64))
    /\ entityManager = Some(EntityManager_init(NewEntityManager))
    /\ viewManager = Some(AddAll(ViewManager_init(NewViewManager), WorkerLayers, 1,
                                 [width |-> 800, height |-> 600]))
    /\ sab = InitialSab
    /\ sabWriters = [f \in SabFields |-> {}]
    /\ lastMsg = [type |-> "UPDATE_MAP", outcome |-> "applied"]
    /\ lastFrame = NoFrame
    /\ dropped = {}
    /\ heap = NewHeap
    /\ main = [NewMain EXCEPT !.registry = addUnit(@, WARRIOR, 19, 41)]

NextSelect ==
    \/ MouseMove(SelectPoints)
    \/ MouseDown
    \/ MouseUp
    \/ SelectionTimer
    \/ OnUpdateUnits
    \/ Frame

SpecSelect == InitSelect /\ [][NextSelect]_vars

----------------------------------------------------------------------------
(* The resource managers driven call by call, from construction: init,     *)
(* updateMapData, updateUnitData and the per-frame update in any order.    *)
(* dropped collects the calls made on a manager that was not ready         *)

InitManagers ==
    /\ now = 0
    /\ inbox = << >>
    /\ mainSentInit = FALSE
    /\ workerPhase = "idle"
    /\ canvas = Null
    /\ mapManager = Some(NewMapManager)
    /\ entityManager = Some(NewEntityManager)
    /\ viewManager = Null
    /\ sab = InitialSab
    /\ sabWriters = [f \in SabFields |-> {}]
    /\ lastMsg = NoMsg
    /\ lastFrame = NoFrame
    /\ dropped = {}
    /\ heap = NewHeap
    /\ main = NewMain

(* mapManager.init(device), entityManager.init(device)                     *)
ManagerInit ==
    /\ \/ /\ ~Val(mapManager).device
          /\ mapManager' = Some(MapManager_init(Val(mapManager)))
          /\ UNCHANGED entityManager
       \/ /\ ~Val(entityManager).device
          /\ entityManager' = Some(EntityManager_init(Val(entityManager)))
          /\ UNCHANGED mapManager
    /\ lastMsg' = [type |-> "init", outcome |-> "returned"]
    /\ UNCHANGED <<heap, main, now, inbox, mainSentInit, workerPhase, canvas,
                   viewManager, sab, sabWriters, lastFrame, dropped>>

(* mapManager.updateMapData(tileData, mapSize) with the grid's side        *)
CallUpdateMapData ==
    /\ \E g \in WorkerGrids :
         LET mm2 == updateMapData(Val(mapManager), g, Max(0, IntegerSqrt(g.length)))
         IN  /\ MapBufferCreations(mm2) <= MaxVersion
             /\ mapManager' = Some(mm2)
    /\ lastMsg' = [type |-> "updateMapData", outcome |-> "returned"]
    /\ dropped' = IF Val(mapManager).device THEN dropped
                  ELSE dropped \cup {"updateMapData"}
    /\ UNCHANGED <<heap, main, now, inbox, mainSentInit, workerPhase, canvas,
                   entityManager, viewManager, sab, sabWriters, lastFrame>>

(* entityManager.updateUnitData(unitData, unitCount)                       *)
CallUpdateUnitData ==
    /\ \E t \in WorkerTables :
         LET em2 == updateUnitData(Val(entityManager), t,
                                   Len(t) \div FLOATS_PER_UNIT, now)
         IN  /\ em2.bufferVersion <= MaxVersion
             /\ entityManager' = Some(em2)
    /\ lastMsg' = [type |-> "updateUnitData", outcome |-> "returned"]
    /\ dropped' = IF Val(entityManager).device THEN dropped
                  ELSE dropped \cup {"updateUnitData"}
    /\ UNCHANGED <<heap, main, now, inbox, mainSentInit, workerPhase, canvas,
                   mapManager, viewManager, sab, sabWriters, lastFrame>>

(* entityManager.update(deltaTime)                                         *)
CallUpdate ==
    /\ entityManager' = Some(EntityManager_update(Val(entityManager), now))
    /\ lastMsg' = [type |-> "update", outcome |-> "returned"]
    /\ lastFrame' = [NoFrame EXCEPT !.ran = TRUE, !.parity = 1 - lastFrame.parity]
    /\ dropped' = IF /\ Val(entityManager).device
                     /\ ~IsNull(Val(entityManager).unitStorageBuffer)
                     /\ ~IsNull(Val(entityManager).currentUnitData)
                  THEN dropped ELSE dropped \cup {"update"}
    /\ UNCHANGED <<heap, main, now, inbox, mainSentInit, workerPhase, canvas,
                   mapManager, viewManager, sab, sabWriters>>

NextManagers ==
    \/ ManagerInit
    \/ CallUpdateMapData
    \/ CallUpdateUnitData
    \/ CallUpdate
    \/ Tick

SpecManagers == InitManagers /\ [][NextManagers]_vars

----------------------------------------------------------------------------
(* The compositor driven call by call: add, remove, visibility, update     *)

LayerViewports == {Null, Some([x |-> 10, y |-> 10, width |-> 50, height |-> 50])}

InitVM ==
    /\ now = 0
    /\ inbox = << >>
    /\ mainSentInit = FALSE
    /\ workerPhase = "idle"
    /\ canvas = Some([width |-> 800, height |-> 600])
    /\ mapManager = Some(NewMapManager)
    /\ entityManager = Some(NewEntityManager)
    /\ viewManager = Some(ViewManager_init(NewViewManager))
    /\ sab = InitialSab
    /\ sabWriters = [f \in SabFields |-> {}]
    /\ lastMsg = NoMsg
    /\ lastFrame = NoFrame
    /\ dropped = {}
    /\ heap = NewHeap
    /\ main = NewMain

(* viewManager.add(layer) with an initialised compositor                   *)
VMAdd ==
    /\ ~IsNull(viewManager)
    /\ Val(viewManager).gpuContext
    /\ Len(Val(viewManager).layers) < MaxLayers
    /\ Val(viewManager).nextLayerId < MaxAdds
    /\ \E viewport \in LayerViewports :
         viewManager' = Some(ViewManager_add(Val(viewManager),
                                             NewLayer("overlay", viewport),
                                             Val(canvas)))
    /\ UNCHANGED <<heap, main, now, inbox, mainSentInit, workerPhase, canvas, mapManager,
                   entityManager, sab, sabWriters, lastMsg, lastFrame, dropped>>

(* viewManager.remove(layer) of a layer in the collection                  *)
VMRemove ==
    /\ ~IsNull(viewManager)
    /\ \E i \in DOMAIN Val(viewManager).layers :
         viewManager' = Some(ViewManager_remove(Val(viewManager), i))
    /\ UNCHANGED <<heap, main, now, inbox, mainSentInit, workerPhase, canvas, mapManager,
                   entityManager, sab, sabWriters, lastMsg, lastFrame, dropped>>

(* layer.visible = !layer.visible                                          *)
VMSetVisible ==
    /\ ~IsNull(viewManager)
    /\ \E i \in DOMAIN Val(viewManager).layers :
         viewManager' = Some([Val(viewManager) EXCEPT
                                 !.layers[i].visible = ~Val(viewManager).layers[i].visible])
    /\ UNCHANGED <<heap, main, now, inbox, mainSentInit, workerPhase, canvas, mapManager,
                   entityManager, sab, sabWriters, lastMsg, lastFrame, dropped>>

(* viewManager.update(sabView, deltaTime)                                  *)
VMUpdate ==
    /\ ~IsNull(viewManager)
    /\ LET u == ViewManager_update(Val(viewManager),
                                   [sab |-> sab, wrote |-> {},
                                    em |-> Val(entityManager)],
                                   Val(mapManager), Val(canvas), now)
       IN  /\ viewManager' = Some(u.vm)
           /\ entityManager' = Some(u.fs.em)
           /\ sab' = u.fs.sab
           /\ sabWriters' = Wrote(sabWriters, "render", u.fs.wrote)
           /\ lastFrame' = [ran |-> TRUE, parity |-> 1 - lastFrame.parity,
                            threw |-> FALSE, rescheduled |-> FALSE,
                            updated |-> u.updated, calls |-> << >>,
                            ended |-> << >>, wrote |-> u.fs.wrote]
    /\ UNCHANGED <<heap, main, now, inbox, mainSentInit, workerPhase, canvas, mapManager,
                   lastMsg, dropped>>

NextVM ==
    \/ VMAdd
    \/ VMRemove
    \/ VMSetVisible
    \/ VMUpdate
    \/ MouseMove(PointerPositions)
    \/ MouseButton

SpecVM == InitVM /\ [][NextVM]_vars

----------------------------------------------------------------------------
(* The compositor's render, for layers of three kinds added in any order:  *)
(* the map is loaded, so a world layer that was updated can open a pass    *)

LayerKinds == {"world", "overlay", "minimap"}

InitRender ==
    /\ now = 0
    /\ inbox = << >>
    /\ mainSentInit = FALSE
    /\ workerPhase = "idle"
    /\ canvas = Some([width |-> 800, height |-> 600])
    /\ mapManager = Some(updateMapData(MapManager_init(NewMapManager),
                                       Grid(4096, 0), 64))
    /\ entityManager = Some(EntityManager_init(NewEntityManager))
    /\ viewManager = Some(ViewManager_init(NewViewManager))
    /\ sab = InitialSab
    /\ sabWriters = [f \in SabFields |-> {}]
    /\ lastMsg = NoMsg
    /\ lastFrame = NoFrame
    /\ dropped = {}
    /\ heap = NewHeap
    /\ main = NewMain

VMAddKind ==
    /\ Len(Val(viewManager).layers) < MaxLayers
    /\ Val(viewManager).nextLayerId < MaxAdds
    /\ \E kind \in LayerKinds :
         viewManager' = Some(ViewManager_add(Val(viewManager), NewLayer(kind, Null),
                                             Val(canvas)))
    /\ UNCHANGED <<heap, main, now, inbox, mainSentInit, workerPhase, canvas,
                   mapManager, entityManager, sab, sabWriters, lastMsg, lastFrame,
                   dropped>>

(* viewManager.render(commandEncoder, textureView, width, height)          *)
VMRender ==
    /\ LET r == ViewManager_render(Val(viewManager), Val(mapManager),
                                   Val(entityManager))
       IN  /\ viewManager' = Some(r.vm)
           /\ lastFrame' = [ran |-> TRUE, parity |-> 1 - lastFrame.parity,
                            threw |-> r.threw, rescheduled |-> FALSE,
                            updated |-> << >>, calls |-> r.calls,
                            ended |-> r.ended, wrote |-> {}]
    /\ UNCHANGED <<heap, main, now, inbox, mainSentInit, workerPhase, canvas,
                   mapManager, entityManager, sab, sabWriters, lastMsg, dropped>>

NextRender ==
    \/ VMAddKind
    \/ VMRemove
    \/ VMSetVisible
    \/ VMUpdate
    \/ VMRender
    \/ MouseMove(SelectPoints)
    \/ MouseButton

SpecRender == InitRender /\ [][NextRender]_vars


----------------------------------------------------------------------------
(* The compositor from its construction: layers with and without a cleanup *)
(* method are added, before and after init, and removed, also when they    *)
(* are not in the collection.  lastMsg holds the last add or remove call.  *)

(* One pointer position inside the viewport of LayerViewports              *)
LayerPointers == {<<20, 20>>}

NewLayers == {NewLayer("overlay", viewport) : viewport \in LayerViewports}
                 \cup {NewLayer("minimap", Null)}

InitLayers ==
    /\ now = 0
    /\ inbox = << >>
    /\ mainSentInit = FALSE
    /\ workerPhase = "idle"
    /\ canvas = Some([width |-> 800, height |-> 600])
    /\ mapManager = Some(NewMapManager)
    /\ entityManager = Some(NewEntityManager)
    /\ viewManager = Some(NewViewManager)
    /\ sab = InitialSab
    /\ sabWriters = [f \in SabFields |-> {}]
    /\ lastMsg = NoMsg
    /\ lastFrame = NoFrame
    /\ dropped = {}
    /\ heap = NewHeap
    /\ main = NewMain

(* viewManager.init(context)                                               *)
LayersInit ==
    /\ ~Val(viewManager).gpuContext
    /\ viewManager' = Some(ViewManager_init(Val(viewManager)))
    /\ UNCHANGED <<heap, main, now, inbox, mainSentInit, workerPhase, canvas, mapManager,
                   entityManager, sab, sabWriters, lastMsg, lastFrame, dropped>>

(* viewManager.add(layer) of a new layer object                            *)
LayerAdd ==
    /\ Len(Val(viewManager).layers) < MaxLayers
    /\ Val(viewManager).nextLayerId < MaxAdds
    /\ \E new \in NewLayers, cleanup \in BOOLEAN :
         LET layer == [new EXCEPT !.cleanup = cleanup]
             r == ViewManager_addOrThrow(Val(viewManager), layer, Val(canvas))
         IN  /\ viewManager' = Some(r.vm)
             /\ lastMsg' = [type |-> "add",
                            outcome |-> IF r.threw THEN "threw" ELSE "added",
                            given |-> layer, layer |-> r.layer, cleanups |-> 0]
    /\ UNCHANGED <<heap, main, now, inbox, mainSentInit, workerPhase, canvas, mapManager,
                   entityManager, sab, sabWriters, lastFrame, dropped>>

(* The layer objects a caller can hand to remove: those in the collection, *)
(* and objects with a cleanup method that are not in it (never added, or   *)
(* removed before)                                                         *)
RemovableLayers(vm) ==
    {vm.layers[i] : i \in DOMAIN vm.layers}
        \cup {[NewLayer("overlay", Null) EXCEPT !.layerId = id, !.cleanup = TRUE] :
                 id \in {k \in -1..(MaxAdds - 1) :
                           \A i \in DOMAIN vm.layers : vm.layers[i].layerId # k}}

(* viewManager.remove(layer)                                               *)
LayerRemove ==
    /\ \E layer \in RemovableLayers(Val(viewManager)) :
         LET r == ViewManager_removeLayer(Val(viewManager), layer)
         IN  /\ viewManager' = Some(r.vm)
             /\ lastMsg' = [type |-> "remove",
                            outcome |-> IF r.vm = Val(viewManager)
                                        THEN "absent" ELSE "removed",
                            given |-> layer, layer |-> layer, cleanups |-> r.cleanups]
    /\ UNCHANGED <<heap, main, now, inbox, mainSentInit, workerPhase, canvas, mapManager,
                   entityManager, sab, sabWriters, lastFrame, dropped>>

NextLayers ==
    \/ LayersInit
    \/ LayerAdd
    \/ LayerRemove
    \/ VMSetVisible
    \/ VMUpdate
    \/ MouseMove(LayerPointers)
    \/ MouseButton

SpecLayers == InitLayers /\ [][NextLayers]_vars

----------------------------------------------------------------------------
(* The unit registry alone: gameplay code adds units with and without an   *)
(* id of its own and removes units; lastMsg records the last call          *)

MaxUnitId == 3
GivenUnitIds == {Null} \cup {Some(id) : id \in 1..MaxUnitId}
UnitTiles == {<<3, 4>>, <<5, 6>>}

InitRegistry ==
    /\ now = 0
    /\ inbox = << >>
    /\ mainSentInit = FALSE
    /\ workerPhase = "idle"
    /\ canvas = Null
    /\ mapManager = Null
    /\ entityManager = Null
    /\ viewManager = Null
    /\ sab = InitialSab
    /\ sabWriters = [f \in SabFields |-> {}]
    /\ lastMsg = [type |-> "none", parity |-> 0]
    /\ lastFrame = NoFrame
    /\ dropped = {}
    /\ heap = NewHeap
    /\ main = NewMain

RegistryAdd ==
    /\ Len(main.registry.units) < MaxRegistry
    /\ main.registry.nextUnitId <= MaxUnitId
    /\ \E unitId \in GivenUnitIds : \E tile \in UnitTiles :
         LET r == UnitRegistry_addUnit(main.registry, unitId, WARRIOR, tile[1], tile[2])
         IN  /\ main' = [main EXCEPT !.registry = r.registry]
             /\ lastMsg' = [type |-> "addUnit", given |-> unitId, returned |-> r.id,
                            parity |-> 1 - lastMsg.parity]
    /\ UNCHANGED <<now, inbox, mainSentInit, workerPhase, canvas, mapManager,
                   entityManager, viewManager, sab, sabWriters, lastFrame, dropped,
                   heap>>

RegistryRemove ==
    /\ \E id \in 1..MaxUnitId :
         LET r == removeUnit(main.registry, id)
         IN  /\ main' = [main EXCEPT !.registry = r.registry]
             /\ lastMsg' = [type |-> "removeUnit", given |-> Some(id),
                            returned |-> r.removed, parity |-> 1 - lastMsg.parity]
    /\ UNCHANGED <<now, inbox, mainSentInit, workerPhase, canvas, mapManager,
                   entityManager, viewManager, sab, sabWriters, lastFrame, dropped,
                   heap>>

NextRegistry ==
    \/ RegistryAdd
    \/ RegistryRemove

SpecRegistry == InitRegistry /\ [][NextRegistry]_vars

----------------------------------------------------------------------------
(* The hovered tile: frames of the running worker for several cameras and  *)
(* zooms, grids of two sizes, pointers in the corners and the centre of    *)
(* the window, and windows resized to 400 x 300 and to nothing             *)

HoverGrids == {Grid(4096, 0), Grid(64, 0)}
(* <<CAMERA_X, CAMERA_Y, CAMERA_ZOOM in tenths>>                           *)
HoverCameras == {<<32, 32, 1>>, <<64, 0, 1>>, <<0, 64, 5>>, <<32, 32, 50>>}
HoverPoints == {<<0, 0>>, <<799, 599>>, <<400, 300>>}
HoverSizes == {<<0, 0>>, <<400, 300>>}

InitHover ==
    /\ now = 0
    /\ inbox = << >>
    /\ mainSentInit = TRUE
    /\ workerPhase = "running"
    /\ canvas = Some([width |-> 800, height |-> 600])
    /\ \E grid \in HoverGrids :
         mapManager = Some(updateMapData(MapManager_init(NewMapManager), grid,
                                         IntegerSqrt(grid.length)))
    /\ entityManager = Some(EntityManager_init(NewEntityManager))
    /\ viewManager = Some(AddAll(ViewManager_init(NewViewManager), WorkerLayers, 1,
                                 [width |-> 800, height |-> 600]))
    /\ \E cam \in HoverCameras :
         sab = [InitialSab EXCEPT !["CAMERA_X"] = cam[1], !["CAMERA_Y"] = cam[2],
                                  !["CAMERA_ZOOM"] = cam[3]]
    /\ sabWriters = [f \in SabFields |-> {}]
    /\ lastMsg = [type |-> "UPDATE_MAP", outcome |-> "applied"]
    /\ lastFrame = NoFrame
    /\ dropped = {}
    /\ heap = NewHeap
    /\ main = NewMain

NextHover ==
    \/ Frame
    \/ MouseMove(HoverPoints)
    \/ PostResize(HoverSizes)
    \/ OnResize

SpecHover == InitHover /\ [][NextHover]_vars

----------------------------------------------------------------------------
(* The camera: the wheel listener and the pan loop of the input thread on  *)
(* the shared channel.  In this specification the three camera fields of   *)
(* the channel hold exact rationals; the screen and pointer fields hold    *)
(* whole pixels.                                                           *)

(* Window sizes: 4:3, tall, 4:1 and 17:1                                   *)
CameraSizes == {<<800, 600>>, <<300, 600>>, <<2400, 600>>, <<1700, 100>>}
CameraPoints == {<<20, 20>>, <<150, 50>>}
WheelDeltas == {0, -100, -400, 1000}
(* Seconds between two turns of the pan loop                               *)
PanDeltaTimes == {Rat(1, 10)}

(* init(): camera at the map centre, zoom 0.1, the window's size           *)
CameraSab(size) ==
    [f \in SabFields |->
        CASE f = "CAMERA_X" -> RInt(32)
          [] f = "CAMERA_Y" -> RInt(32)
          [] f = "CAMERA_ZOOM" -> Rat(1, 10)
          [] f = "SCREEN_WIDTH" -> size[1]
          [] f = "SCREEN_HEIGHT" -> size[2]
          [] OTHER -> InitialSab[f]]

InitCamera ==
    /\ now = 0
    /\ inbox = << >>
    /\ mainSentInit = FALSE
    /\ workerPhase = "idle"
    /\ canvas = Null
    /\ mapManager = Null
    /\ entityManager = Null
    /\ viewManager = Null
    /\ \E size \in CameraSizes : sab = CameraSab(size)
    /\ sabWriters = [f \in SabFields |-> {}]
    /\ lastMsg = NoMsg
    /\ lastFrame = NoFrame
    /\ dropped = {}
    /\ heap = NewHeap
    /\ main = NewMain

Wheel ==
    /\ now < MaxTime
    /\ now' = now + 1
    /\ \E deltaY \in WheelDeltas :
         LET call == onWheel(sab, deltaY)
         IN  /\ sab' = [sab EXCEPT !["CAMERA_X"] = call.outX,
                                   !["CAMERA_Y"] = call.outY,
                                   !["CAMERA_ZOOM"] = call.zoom]
             /\ main' = [main EXCEPT !.lastCameraCall = call]
    /\ sabWriters' = Wrote(sabWriters, "input", {"CAMERA_X", "CAMERA_Y", "CAMERA_ZOOM"})
    /\ UNCHANGED <<heap, inbox, mainSentInit, workerPhase, canvas, mapManager,
                   entityManager, viewManager, lastMsg, lastFrame, dropped>>

Pan ==
    /\ now < MaxTime
    /\ now' = now + 1
    /\ \E panX \in {-1, 0, 1}, panY \in {-1, 0, 1}, deltaTime \in PanDeltaTimes :
         IF panX # 0 \/ panY # 0
         THEN LET call == panLoop(sab, panX, panY, deltaTime)
              IN  /\ sab' = [sab EXCEPT !["CAMERA_X"] = call.outX,
                                        !["CAMERA_Y"] = call.outY]
                  /\ main' = [main EXCEPT !.lastCameraCall = call]
                  /\ sabWriters' = Wrote(sabWriters, "input", {"CAMERA_X", "CAMERA_Y"})
         ELSE UNCHANGED <<sab, main, sabWriters>>
    /\ UNCHANGED <<heap, inbox, mainSentInit, workerPhase, canvas, mapManager,
                   entityManager, viewManager, lastMsg, lastFrame, dropped>>

NextCamera ==
    \/ Wheel
    \/ Pan
    \/ MouseMove(CameraPoints)

SpecCamera == InitCamera /\ [][NextCamera]_vars

----------------------------------------------------------------------------
(* Properties *)

(* A step in which the worker takes an UPDATE_MAP message off its queue    *)
(* while the map manager exists                                            *)
MapUpdateHandled ==
    /\ inbox # << >>
    /\ Head(inbox).type = "UPDATE_MAP"
    /\ inbox' = Tail(inbox)
    /\ ~IsNull(mapManager)

(* A step in which the worker takes an UPDATE_UNITS message off its queue  *)
(* while the entity manager exists                                         *)
UnitUpdateHandled ==
    /\ inbox # << >>
    /\ Head(inbox).type = "UPDATE_UNITS"
    /\ inbox' = Tail(inbox)
    /\ ~IsNull(entityManager)

(* C1: after every accepted update carrying a valid n x n grid the map     *)
(* manager's size reads n, and the number of buffer creations grows by one *)
(* exactly when n differs from the size stored before the update or no     *)
(* buffer existed; otherwise the buffer is reused.                         *)
C1VersionTracksSize ==
    [][(MapUpdateHandled /\ IntegerSqrt(Head(inbox).data.length) > 0)
       => LET n == IntegerSqrt(Head(inbox).data.length)
              before == Val(mapManager)
              after == Val(mapManager')
              recreate == IsNull(before.tilemapStorageBuffer)
                          \/ getMapSize(before) # n
          IN  /\ getMapSize(after) = n
              /\ MapBufferCreations(after) =
                     MapBufferCreations(before) + (IF recreate THEN 1 ELSE 0)]_vars

(* C2: the entity buffer version grows by exactly one in a step that       *)
(* accepts an entity table whose count differs from the stored count or    *)
(* that arrives while no buffer exists, and is unchanged by every other    *)
(* step: same-count updates, rejected updates, frames, clock ticks.        *)
C2VersionStep ==
    [][LET before == Val(entityManager)
           after == Val(entityManager')
           accepted == /\ UnitUpdateHandled
                       /\ Len(Head(inbox).unitData)
                              = Head(inbox).unitCount * FLOATS_PER_UNIT
           recreate == IF accepted
                       THEN \/ IsNull(before.unitStorageBuffer)
                            \/ before.currentUnitCount # Head(inbox).unitCount
                       ELSE FALSE
       IN  getBufferVersion(after) =
               getBufferVersion(before) + (IF recreate THEN 1 ELSE 0)]_vars

(* C2 witness: two recreations have happened, frames have run and the last *)
(* message handled was a rejected table                                    *)
C2Witness ==
    /\ getBufferVersion(Val(entityManager)) = 2
    /\ lastFrame.ran
    /\ lastMsg = [type |-> "UPDATE_UNITS", outcome |-> "rejected"]

(* The position of slot i in the entity buffer on the GPU: what is drawn   *)
Displayed(em, i) ==
    LET content == Val(Val(em.unitStorageBuffer).data)
    IN  <<content[i * FLOATS_PER_UNIT + 1], content[i * FLOATS_PER_UNIT + 2]>>

(* C3: when an accepted same-count update gives a new target to a slot     *)
(* whose interpolation is in flight, the slot's new interpolation starts   *)
(* at the position displayed when the update arrived and ends at the new   *)
(* position, and the displayed position does not change in that step.      *)
C3StartsAtDisplayed ==
    [][(/\ UnitUpdateHandled
        /\ Len(Head(inbox).unitData) = Head(inbox).unitCount * FLOATS_PER_UNIT
        /\ ~IsNull(Val(entityManager).currentUnitData)
        /\ Val(entityManager).currentUnitCount = Head(inbox).unitCount)
       => LET before == Val(entityManager)
              after == Val(entityManager')
              unitData == Head(inbox).unitData
              retargeted ==
                  {i \in DOMAIN before.interpolationStates :
                      /\ i < Head(inbox).unitCount
                      /\ <<unitData[i * FLOATS_PER_UNIT + 1],
                           unitData[i * FLOATS_PER_UNIT + 2]>>
                           # <<before.interpolationStates[i].targetX,
                               before.interpolationStates[i].targetY>>}
          IN  \A i \in retargeted :
                 /\ Displayed(after, i) = Displayed(before, i)
                 /\ IF i \in DOMAIN after.interpolationStates
                    THEN /\ <<after.interpolationStates[i].startX,
                              after.interpolationStates[i].startY>>
                              = Displayed(before, i)
                         /\ <<after.interpolationStates[i].targetX,
                              after.interpolationStates[i].targetY>>
                              = <<unitData[i * FLOATS_PER_UNIT + 1],
                                  unitData[i * FLOATS_PER_UNIT + 2]>>
                    ELSE <<unitData[i * FLOATS_PER_UNIT + 1],
                           unitData[i * FLOATS_PER_UNIT + 2]>>
                           = Displayed(before, i)]_vars

(* C3 witness: slot 0 was retargeted in mid-flight: its interpolation      *)
(* starts strictly between the two ends of the move it interrupted         *)
C3Witness ==
    /\ lastMsg = [type |-> "UPDATE_UNITS", outcome |-> "applied"]
    /\ 0 \in DOMAIN Val(entityManager).interpolationStates
    /\ Val(entityManager).interpolationStates[0].startX \in {1, 2}
    /\ Val(entityManager).interpolationStates[0].startTime = now

(* A step that runs the compositor's update                                *)
UpdateRan == lastFrame'.parity # lastFrame.parity

(* The rectangle test as the layer contract states it                      *)
Contains(layer, x, y) ==
    IF IsNull(layer.viewport) THEN TRUE
    ELSE LET v == Val(layer.viewport)
         IN  x >= v.x /\ x < v.x + v.width /\ y >= v.y /\ y < v.y + v.height

(* C4: with the button held, update writes to CAPTURED_LAYER_ID the id of  *)
(* the visible layer latest in add order whose viewport contains the       *)
(* pointer (a null viewport contains every point), or -1 when there is     *)
(* none.                                                                   *)
C4TopmostCaptures ==
    [][(UpdateRan /\ sab["IS_MOUSE_DOWN"] > 0)
       => LET layers == Val(viewManager).layers
              matches == {i \in DOMAIN layers :
                             /\ layers[i].visible
                             /\ Contains(layers[i], sab["MOUSE_WORLD_X"],
                                         sab["MOUSE_WORLD_Y"])}
          IN  sab'["CAPTURED_LAYER_ID"] =
                  IF matches = {} THEN -1
                  ELSE layers[CHOOSE i \in matches :
                                 \A j \in matches : j <= i].layerId]_vars

(* C4 witness: layers A (null viewport) and B ({10,10,50,50}) added in     *)
(* that order, button held, pointer at (20,20): B's id is captured         *)
C4Witness ==
    /\ lastFrame.ran
    /\ Len(Val(viewManager).layers) = 2
    /\ Val(viewManager).layers[1].viewport = Null
    /\ Val(viewManager).layers[2].viewport # Null
    /\ Val(viewManager).layers[1].visible
    /\ Val(viewManager).layers[2].visible
    /\ sab["IS_MOUSE_DOWN"] = 1
    /\ sab["MOUSE_WORLD_X"] = 20
    /\ sab["MOUSE_WORLD_Y"] = 20
    /\ sab["CAPTURED_LAYER_ID"] = Val(viewManager).layers[2].layerId

(* C5: when the button is not held, update writes -1 to                    *)
(* CAPTURED_LAYER_ID whatever the pointer position and the layers.         *)
C5NoCaptureWithoutButton ==
    [][(UpdateRan /\ sab["IS_MOUSE_DOWN"] = 0)
       => sab'["CAPTURED_LAYER_ID"] = -1]_vars

(* C5 witness: update has written the capture field, the button is up, a   *)
(* visible layer exists and the field reads -1                             *)
C5Witness ==
    /\ lastFrame.ran
    /\ sab["IS_MOUSE_DOWN"] = 0
    /\ sab["CAPTURED_LAYER_ID"] = -1
    /\ \E i \in DOMAIN Val(viewManager).layers : Val(viewManager).layers[i].visible
    /\ "render" \in sabWriters["CAPTURED_LAYER_ID"]

(* C6: every frame completes its update and render without an exception   *)
(* and schedules the next frame, whatever data has or has not arrived.     *)
C6FrameCompletes ==
    lastFrame.ran => (~lastFrame.threw /\ lastFrame.rescheduled)

(* C7: no valid update message sent after INIT is discarded by the worker. *)
C7NoUpdateLost == dropped = {}

(* C8: the input fields of the channel are written by the input thread     *)
(* only and the render fields by the rendering thread only.                *)
C8SingleWriter ==
    /\ \A f \in InputFields : sabWriters[f] \subseteq {"input"}
    /\ \A f \in RenderFields : sabWriters[f] \subseteq {"render"}

(* C9: a grid whose length is not a perfect square, or an entity table     *)
(* whose length is not four times its count, is rejected as a whole: both  *)
(* managers (data, size or count, buffer, version, interpolation states)   *)
(* are unchanged and the worker keeps running.                             *)
C9RejectedUnchanged ==
    [][(/\ inbox # << >>
        /\ inbox' = Tail(inbox)
        /\ IF Head(inbox).type = "UPDATE_UNITS"
           THEN Len(Head(inbox).unitData) # Head(inbox).unitCount * 4
           ELSE IF Head(inbox).type = "UPDATE_MAP"
           THEN \A n \in 0..Head(inbox).data.length :
                    n * n # Head(inbox).data.length
           ELSE FALSE)
       => /\ mapManager' = mapManager
          /\ entityManager' = entityManager
          /\ workerPhase' = workerPhase
          /\ lastMsg'.outcome = "rejected"]_vars

(* C9 witness: a mismatched entity table has just been rejected by a       *)
(* worker that holds a grid and an entity table                            *)
C9Witness ==
    /\ lastMsg = [type |-> "UPDATE_UNITS", outcome |-> "rejected"]
    /\ workerPhase = "running"
    /\ hasMapData(Val(mapManager))
    /\ Val(entityManager).currentUnitData # Null
    /\ Val(entityManager).currentUnitCount = 1

(* C10: from a map manager without data, a 64 x 64 all-zero grid leaves    *)
(* size 64 and one buffer creation; from there a 32 x 32 grid leaves two   *)
(* creations; and with size 32 stored, a buffer of length 64 is rejected,  *)
(* leaving size and creations as they were.                                *)
C10GridScenario ==
    [][MapUpdateHandled
       => LET before == Val(mapManager)
              after == Val(mapManager')
              data == Head(inbox).data
          IN  /\ (~hasMapData(before) /\ data = Grid(4096, 0))
                 => (getMapSize(after) = 64 /\ MapBufferCreations(after) = 1)
              /\ (getMapSize(before) = 64 /\ MapBufferCreations(before) = 1
                     /\ data.length = 1024)
                 => MapBufferCreations(after) = 2
              /\ (getMapSize(before) = 32 /\ data.length = 64)
                 => (getMapSize(after) = 32
                     /\ MapBufferCreations(after) = MapBufferCreations(before))]_vars

(* An accepted entity update with the count already stored                 *)
SameCountUpdateAccepted ==
    /\ UnitUpdateHandled
    /\ Len(Head(inbox).unitData) = Head(inbox).unitCount * FLOATS_PER_UNIT
    /\ ~IsNull(Val(entityManager).currentUnitData)
    /\ Val(entityManager).currentUnitCount = Head(inbox).unitCount

(* The position a table gives to slot i                                    *)
PositionIn(unitData, i) ==
    <<unitData[i * FLOATS_PER_UNIT + 1], unitData[i * FLOATS_PER_UNIT + 2]>>

(* C11: an interpolation in flight completes within MOVE_DURATION of its   *)
(* start: an accepted update that leaves the slot's target position        *)
(* unchanged does not postpone the time at which the slot's interpolation  *)
(* is complete.                                                            *)
C11DeadlineKept ==
    [][SameCountUpdateAccepted
       => LET before == Val(entityManager).interpolationStates
              after == Val(entityManager').interpolationStates
              unitData == Head(inbox).unitData
          IN  \A i \in DOMAIN before :
                 (/\ i < Head(inbox).unitCount
                  /\ PositionIn(unitData, i) = <<before[i].targetX, before[i].targetY>>
                  /\ i \in DOMAIN after)
                 => after[i].startTime + MOVE_DURATION
                        <= before[i].startTime + MOVE_DURATION]_vars

(* C12: when an accepted update repeats the positions of the committed     *)
(* table while no interpolation is active, the per-frame advance that      *)
(* follows changes nothing: no interpolation is started, every slot is     *)
(* displayed at its committed position, and the version is not bumped.     *)
C12UnchangedTableIsNoOp ==
    [][(/\ SameCountUpdateAccepted
        /\ DOMAIN Val(entityManager).interpolationStates = {}
        /\ \A i \in 0..(Head(inbox).unitCount - 1) :
              PositionIn(Head(inbox).unitData, i)
                  = PositionIn(Val(Val(entityManager).currentUnitData), i))
       => LET after == Val(entityManager')
              advanced == EntityManager_update(after, now)
          IN  /\ DOMAIN after.interpolationStates = {}
              /\ getBufferVersion(after) = getBufferVersion(Val(entityManager))
              /\ getBufferVersion(advanced) = getBufferVersion(after)
              /\ \A i \in 0..(Head(inbox).unitCount - 1) :
                    Displayed(advanced, i) = PositionIn(Head(inbox).unitData, i)]_vars

(* The ids of the visible layers, in order                                 *)
RECURSIVE VisibleIds(_, _)
VisibleIds(layers, i) ==
    IF i > Len(layers) THEN << >>
    ELSE IF layers[i].visible
    THEN <<layers[i].layerId>> \o VisibleIds(layers, i + 1)
    ELSE VisibleIds(layers, i + 1)

(* C13: in every frame the captured-layer id is written before any layer   *)
(* is updated (every update call finds the id resolved in this frame),     *)
(* every visible layer is updated, and rendering comes after the updates   *)
(* (only updated layers are rendered, and the world layer draws in the     *)
(* very frame whose update built its binding).                             *)
C13FrameOrder ==
    [][(UpdateRan /\ workerPhase = "running")
       => LET f == lastFrame'
              layers == Val(viewManager).layers
              updatedIds == [k \in DOMAIN f.updated |-> f.updated[k].layerId]
          IN  /\ "CAPTURED_LAYER_ID" \in f.wrote
              /\ \A k \in DOMAIN f.updated :
                    f.updated[k].captured = sab'["CAPTURED_LAYER_ID"]
              /\ updatedIds = VisibleIds(layers, 1)
              /\ \A k \in DOMAIN f.calls :
                    /\ \E u \in DOMAIN updatedIds : updatedIds[u] = f.calls[k].layerId
                    /\ layers[k].kind = "world"
                          => f.calls[k].drew = hasMapData(Val(mapManager))]_vars

(* C13 witness: a frame resolved a capture with the button held, updated   *)
(* the three layers and drew the world layer                               *)
C13Witness ==
    /\ lastFrame.ran
    /\ Len(lastFrame.updated) = 3
    /\ lastFrame.updated[1].captured = 1
    /\ Len(lastFrame.calls) = 3
    /\ lastFrame.calls[1].drew
    /\ sab["CAPTURED_LAYER_ID"] = 1

(* The kind of the layer with a given id                                   *)
KindOf(layers, id) ==
    layers[CHOOSE i \in DOMAIN layers : layers[i].layerId = id].kind

IsBulk(msg) == msg.type \in {"UPDATE_MAP", "UPDATE_UNITS"}

C17SyncedTableApplied ==
    [][UnitUpdateHandled =>
          /\ Len(Head(inbox).unitData) = Head(inbox).unitCount * FLOATS_PER_UNIT
          /\ lastMsg'.outcome = "applied"
          /\ Val(entityManager').currentUnitData = Some(Head(inbox).unitData)]_vars

(* C18: a grid sent with WorkerBridge.updateMap(tileData, mapSize) is      *)
(* accepted by the UPDATE_MAP handler and applied: the map manager then    *)
(* reports size mapSize and holds that grid.                               *)
C18BridgeGridApplied ==
    [][(MapUpdateHandled /\ Head(inbox).tileData # NoGrid) =>
          /\ lastMsg'.outcome = "applied"
          /\ getMapSize(Val(mapManager')) = Head(inbox).mapSize
          /\ Val(mapManager').currentTileData = Some(Head(inbox).tileData)]_vars

(* The selection timer runs for a press                                    *)
TimerFired == main.timers # << >> /\ main'.timers = Tail(main.timers)

(* C16: a left-button press whose pointer lies inside an overlay layer's   *)
(* viewport is never handled as a world-selection event: its timer         *)
(* selects no unit, moves no unit and posts no table.                      *)
C16OverlayPressIgnored ==
    [][(TimerFired /\ Head(main.timers).inOverlay) =>
          /\ ~main'.lastClick.handled
          /\ main'.registry = main.registry
          /\ inbox' = inbox]_vars

(* A step that ran render: it recorded its layer calls                     *)
RenderRan == UpdateRan /\ (lastFrame'.calls # << >> \/ lastFrame'.updated = << >>)

(* The pass returned by the most recent of the first k calls that          *)
(* returned one, Null when none did                                        *)
RECURSIVE PassAfter(_, _)
PassAfter(calls, k) ==
    IF k = 0 THEN Null
    ELSE IF ~IsNull(calls[k].passOut) THEN calls[k].passOut
    ELSE PassAfter(calls, k - 1)

(* C19: in every render call the first visible layer gets needsNewPass     *)
(* and no pass, every later visible layer gets the pass returned by the    *)
(* most recent layer that returned one, and the pass open at the end of    *)
(* the call is ended exactly once.                                         *)
C19PassThreading ==
    [][RenderRan =>
          LET f == lastFrame'
          IN  /\ f.calls # << >> =>
                     (f.calls[1].needsNewPass /\ IsNull(f.calls[1].passIn))
              /\ \A k \in DOMAIN f.calls :
                     /\ f.calls[k].passIn = PassAfter(f.calls, k - 1)
                     /\ f.calls[k].needsNewPass = (k = 1 \/ IsNull(f.calls[k].passIn))
              /\ f.ended = PassAfter(f.calls, Len(f.calls))
              /\ ~f.threw => [k \in DOMAIN f.calls |-> f.calls[k].layerId]
                                = VisibleIds(Val(viewManager).layers, 1)]_vars

(* Two visible layers were drawn into one pass, opened by the first and    *)
(* ended once                                                              *)
C19Witness ==
    /\ Len(lastFrame.calls) = 2
    /\ lastFrame.calls[1].needsNewPass /\ lastFrame.calls[1].drew
    /\ ~lastFrame.calls[2].needsNewPass /\ lastFrame.calls[2].drew
    /\ lastFrame.calls[2].passIn = lastFrame.calls[1].passOut
    /\ lastFrame.ended = lastFrame.calls[1].passOut

(* A step in which add appended a layer                                    *)
LayerAdded ==
    /\ ~IsNull(viewManager)
    /\ Len(Val(viewManager').layers) = Len(Val(viewManager).layers) + 1

(* C20: layer ids are assigned sequentially from 0 in the order of the     *)
(* add calls, each add appends the layer at the end and initialises it at  *)
(* once, and ids are never reused after remove: the layers of the          *)
(* collection always have distinct ids in strictly ascending order.        *)
C20LayerIds ==
    /\ Val(viewManager).nextLayerId = 0
    /\ [](\A i, j \in DOMAIN Val(viewManager).layers :
              /\ Val(viewManager).layers[i].layerId \in
                     0..(Val(viewManager).nextLayerId - 1)
              /\ i < j => Val(viewManager).layers[i].layerId
                             < Val(viewManager).layers[j].layerId)
    /\ [][LayerAdded =>
             LET before == Val(viewManager)
                 after == Val(viewManager')
                 added == after.layers[Len(after.layers)]
             IN  /\ added.layerId = before.nextLayerId
                 /\ after.nextLayerId = before.nextLayerId + 1
                 /\ SubSeq(after.layers, 1, Len(before.layers)) = before.layers
                 /\ IsNull(added.bindGroup)
                 /\ added.kind = "minimap" =>
                        added.viewport = Some(MinimapViewport(Val(canvas)))]_vars

(* A layer was removed and a later add did not reuse its id                *)
C20Witness ==
    /\ Len(Val(viewManager).layers) = 2
    /\ Val(viewManager).layers[1].layerId = 1
    /\ Val(viewManager).layers[2].layerId = 2
    /\ Val(viewManager).layers[2].kind = "minimap"
    /\ Val(viewManager).nextLayerId = 3

(* The ids of the hidden layers of a collection                            *)
HiddenIds(layers) == {layers[i].layerId : i \in {j \in DOMAIN layers : ~layers[j].visible}}

(* ids is a prefix of all                                                  *)
IsPrefix(ids, all) == Len(ids) <= Len(all) /\ ids = SubSeq(all, 1, Len(ids))

(* C21: a hidden layer is skipped entirely: update and render do not call  *)
(* it and leave it as it was, capture never names it, and the visible      *)
(* layers are still updated and rendered in ascending add order.           *)
C21HiddenSkipped ==
    [][UpdateRan =>
          LET layers == Val(viewManager).layers
              after == Val(viewManager').layers
              f == lastFrame'
              updatedIds == [k \in DOMAIN f.updated |-> f.updated[k].layerId]
              renderedIds == [k \in DOMAIN f.calls |-> f.calls[k].layerId]
          IN  /\ \A i \in DOMAIN layers : ~layers[i].visible => after[i] = layers[i]
              /\ "CAPTURED_LAYER_ID" \in f.wrote =>
                     /\ updatedIds = VisibleIds(layers, 1)
                     /\ sab'["CAPTURED_LAYER_ID"] \notin HiddenIds(layers)
              /\ f.wrote = {} =>
                     /\ IsPrefix(renderedIds, VisibleIds(layers, 1))
                     /\ ~f.threw => renderedIds = VisibleIds(layers, 1)]_vars

(* The second layer is hidden, the button is held with the pointer in its  *)
(* viewport, and update gave the capture to the first layer                *)
C21Witness ==
    /\ lastFrame.ran
    /\ "CAPTURED_LAYER_ID" \in lastFrame.wrote
    /\ Len(Val(viewManager).layers) = 2
    /\ Val(viewManager).layers[1].visible
    /\ ~Val(viewManager).layers[2].visible
    /\ ~IsNull(Val(viewManager).layers[2].viewport)
    /\ Contains(Val(viewManager).layers[2], sab["MOUSE_WORLD_X"], sab["MOUSE_WORLD_Y"])
    /\ sab["IS_MOUSE_DOWN"] = 1
    /\ Len(lastFrame.updated) = 1
    /\ sab["CAPTURED_LAYER_ID"] = Val(viewManager).layers[1].layerId

(* C22: a call on a manager that is not ready is a no-op: updateMapData    *)
(* and updateUnitData before init(device), and update() before a buffer    *)
(* and a table exist, leave the manager, its GPU buffer included, as it    *)
(* was.                                                                    *)
C22UnreadyCallIsNoOp ==
    [][/\ (~Val(mapManager).device /\ ~Val(mapManager').device)
             => mapManager' = mapManager
       /\ (~Val(entityManager).device /\ ~Val(entityManager').device)
             => entityManager' = entityManager
       /\ (UpdateRan /\ (\/ ~Val(entityManager).device
                         \/ IsNull(Val(entityManager).unitStorageBuffer)
                         \/ IsNull(Val(entityManager).currentUnitData)))
             => entityManager' = entityManager]_vars

(* All three calls were made on managers that were not ready, the entity   *)
(* manager being initialised for the last update(), and nothing changed    *)
C22Witness ==
    /\ dropped = {"updateMapData", "updateUnitData", "update"}
    /\ lastMsg.type = "update"
    /\ mapManager = Some(NewMapManager)
    /\ entityManager = Some(EntityManager_init(NewEntityManager))

(* A step that is an animation frame of the input thread                   *)
AnimationFrameRan ==
    /\ main'.frameCallbacks = << >>
    /\ main'.nextHandle = main.nextHandle
    /\ main'.registry.units = main.registry.units
    /\ Len(inbox') >= Len(inbox)

(* C23: scheduleSync is debounced: after any number of calls one callback  *)
(* is pending, the animation frame runs it alone and performs one syncAll  *)
(* with the last call's argument, leaves syncPending false and             *)
(* syncScheduled null, and performs nothing when no call was made.         *)
C23SyncDebounced ==
    /\ [](/\ Len(main.frameCallbacks) <= 1
          /\ main.syncPending <=> main.frameCallbacks # << >>
          /\ main.frameCallbacks # << >> =>
                 main.syncScheduled = Some(main.frameCallbacks[1].handle)
          /\ main.frameCallbacks = << >> => IsNull(main.syncScheduled))
    /\ [][AnimationFrameRan =>
             LET scheduled == main.frameCallbacks # << >>
                 seen == main'.lastAnimationFrame
             IN  /\ ~main'.syncPending
                 /\ IsNull(main'.syncScheduled)
                 /\ seen.callbacks = (IF scheduled THEN 1 ELSE 0)
                 /\ seen.syncs = (IF scheduled THEN 1 ELSE 0)
                 /\ Len(inbox') = Len(inbox) + (IF scheduled THEN 2 ELSE 0)
                 /\ scheduled =>
                        seen.onlyDirtyUnits
                            = main.frameCallbacks[1].onlyDirtyUnits]_vars

(* scheduleSync was called three times, the last one after an animation    *)
(* frame that performed one syncAll; its callback is pending               *)
C23Witness ==
    /\ main.nextHandle = 4
    /\ main.lastAnimationFrame.syncs = 1
    /\ main.lastAnimationFrame.callbacks = 1
    /\ Len(main.frameCallbacks) = 1
    /\ main.frameCallbacks[1].handle = 3
    /\ main.syncPending

(* C24: after a frame isInputCaptured is true exactly when the button is   *)
(* held over an overlay layer's viewport; with the pointer on the world    *)
(* map, or with no capture, it is false.                                   *)
C24CapturedMeansOverlay ==
    [][(UpdateRan /\ workerPhase = "running") =>
          (isInputCaptured([sab |-> sab'])
              <=> (/\ sab["IS_MOUSE_DOWN"] > 0
                   /\ InOverlay(viewManager, sab["MOUSE_WORLD_X"],
                                sab["MOUSE_WORLD_Y"])))]_vars

----------------------------------------------------------------------------
(* The camera of the input thread *)

(* Half of the visible world size on each axis at a zoom and window size   *)
HalfVisibleY(zoom) == RDiv(RInt(1), zoom)
HalfVisibleX(zoom, w, h) == RMul(HalfVisibleY(zoom), Rat(w, h))

(* [cam - half, cam + half] lies inside [0, mapSize]                       *)
AxisInside(cam, half, mapSize) ==
    /\ RLe(RInt(0), RSub(cam, half))
    /\ RLe(RAdd(cam, half), mapSize)

(* What a clamped axis has to be: inside the map when the visible size is  *)
(* at most the map's, the map centre when it is larger                     *)
AxisClamped(out, half, mapSize) ==
    IF RLe(RMul(RInt(2), half), mapSize)
    THEN AxisInside(out, half, mapSize)
    ELSE out = RMul(mapSize, Rat(1, 2))

CallInBounds(c) ==
    /\ AxisInside(c.camX, HalfVisibleX(c.zoom, c.screenWidth, c.screenHeight), RInt(MAP_SIZE))
    /\ AxisInside(c.camY, HalfVisibleY(c.zoom), RInt(MAP_SIZE))

(* C25: every call of clampCameraToBounds returns, on each axis, a position *)
(* whose viewport lies inside [0, mapSize] when the visible size on that   *)
(* axis is at most mapSize, and the map centre when it is larger           *)
C25ClampKeepsViewport ==
    LET c == main.lastCameraCall
    IN  c.event # "none" =>
          /\ AxisClamped(c.outX, HalfVisibleX(c.zoom, c.screenWidth, c.screenHeight),
                         RInt(MAP_SIZE))
          /\ AxisClamped(c.outY, HalfVisibleY(c.zoom), RInt(MAP_SIZE))

(* C26: clampCameraToBounds returns a position whose viewport is already   *)
(* inside the map unchanged, and applied to its own result it returns that *)
(* result                                                                  *)
C26ClampIdempotent ==
    LET c == main.lastCameraCall
    IN  c.event # "none" =>
          /\ CallInBounds(c) => <<c.outX, c.outY>> = <<c.camX, c.camY>>
          /\ clampCameraToBounds(c.outX, c.outY, c.zoom, RInt(c.screenWidth),
                                 RInt(c.screenHeight), RInt(MAP_SIZE))
               = <<c.outX, c.outY>>

(* A pan moved the camera off the centre to a position inside the map and  *)
(* the clamp returned it                                                   *)
C26Witness ==
    LET c == main.lastCameraCall
    IN  /\ c.event = "pan"
        /\ CallInBounds(c)
        /\ c.camX # RInt(32)
        /\ sab["CAMERA_X"] = c.camX
        /\ sab["CAMERA_Y"] = c.camY

(* The visible world sizes at a zoom                                       *)
SmallerVisible(zoom, w, h) ==
    RMul(RInt(2), RMin(HalfVisibleX(zoom, w, h), HalfVisibleY(zoom)))
LargerVisible(zoom, w, h) ==
    RMul(RInt(2), RMax(HalfVisibleX(zoom, w, h), HalfVisibleY(zoom)))

(* The aspect ratio admits a zoom showing at least MIN_VISIBLE_TILES on    *)
(* the smaller axis and at most MAX_VISIBLE_TILES on the larger            *)
AspectFeasible(w, h) ==
    /\ RLe(Rat(MIN_VISIBLE_TILES, MAX_VISIBLE_TILES), Rat(w, h))
    /\ RLe(Rat(w, h), Rat(MAX_VISIBLE_TILES, MIN_VISIBLE_TILES))

WheelStep ==
    /\ now' # now
    /\ main'.lastCameraCall.event = "wheel"
    /\ sabWriters' # sabWriters \/ "input" \in sabWriters["CAMERA_ZOOM"]

CameraInBounds(view) ==
    /\ AxisInside(view["CAMERA_X"],
                  HalfVisibleX(view["CAMERA_ZOOM"], view["SCREEN_WIDTH"], view["SCREEN_HEIGHT"]),
                  RInt(MAP_SIZE))
    /\ AxisInside(view["CAMERA_Y"], HalfVisibleY(view["CAMERA_ZOOM"]), RInt(MAP_SIZE))

(* C28: a wheel event that leaves the zoom as it was, with the camera      *)
(* within bounds, writes back the camera position it read                  *)
C28NoOpZoomKeepsCamera ==
    [][(/\ WheelStep
        /\ sab'["CAMERA_ZOOM"] = sab["CAMERA_ZOOM"]
        /\ CameraInBounds(sab))
       => /\ sab'["CAMERA_X"] = sab["CAMERA_X"]
          /\ sab'["CAMERA_Y"] = sab["CAMERA_Y"]]_vars

(* A wheel event of zero delta with the pointer off the window's centre    *)
(* and the camera off the map's centre, in the 4:3 window whose zoom is    *)
(* always within the limits                                                *)
C28Witness ==
    LET c == main.lastCameraCall
    IN  /\ c.event = "wheel"
        /\ c.deltaY = 0
        /\ c.screenWidth = 800
        /\ sab["MOUSE_WORLD_X"] = 150
        /\ sab["CAMERA_X"] # RInt(32)
        /\ CameraInBounds(sab)
        /\ <<c.outX, c.outY>> = <<c.camX, c.camY>>

----------------------------------------------------------------------------
(* The per-frame advance of the entity interpolation *)

(* A frame in which EntityManager.update passed its guard                  *)
EntityAdvanced ==
    /\ UpdateRan
    /\ ~IsNull(entityManager)
    /\ Val(entityManager).device
    /\ ~IsNull(Val(entityManager).unitStorageBuffer)
    /\ ~IsNull(Val(entityManager).currentUnitData)

(* v lies between a and b                                                  *)
Between(a, b, v) == Min(a, b) <= v /\ v <= Max(a, b)

(* C29: at every per-frame advance each active slot's displayed position   *)
(* is start + (target - start) * min(1, (now - startTime) / MOVE_DURATION): *)
(* it lies on the segment between start and target, it is the target once  *)
(* now - startTime >= MOVE_DURATION, and the slot leaves the active set in  *)
(* that advance exactly when now - startTime >= MOVE_DURATION               *)
C29InterpolationProgress ==
    [][EntityAdvanced
       => LET before == Val(entityManager)
              after == Val(entityManager')
              states == before.interpolationStates
          IN  \A i \in DOMAIN states :
                 LET s == states[i]
                     elapsed == now - s.startTime
                 IN  /\ elapsed >= 0
                     /\ (i \in DOMAIN after.interpolationStates) <=> (elapsed < MOVE_DURATION)
                     /\ i \in DOMAIN after.interpolationStates
                           => after.interpolationStates[i] = s
                     /\ i < before.currentUnitCount
                           => /\ Displayed(after, i)[1] * MOVE_DURATION
                                   <= s.startX * MOVE_DURATION
                                        + (s.targetX - s.startX) * Min(elapsed, MOVE_DURATION)
                              /\ Displayed(after, i)[1] * MOVE_DURATION
                                   > s.startX * MOVE_DURATION
                                        + (s.targetX - s.startX) * Min(elapsed, MOVE_DURATION)
                                        - MOVE_DURATION
                              /\ Displayed(after, i)[2] * MOVE_DURATION
                                   <= s.startY * MOVE_DURATION
                                        + (s.targetY - s.startY) * Min(elapsed, MOVE_DURATION)
                              /\ Displayed(after, i)[2] * MOVE_DURATION
                                   > s.startY * MOVE_DURATION
                                        + (s.targetY - s.startY) * Min(elapsed, MOVE_DURATION)
                                        - MOVE_DURATION
                              /\ Between(s.startX, s.targetX, Displayed(after, i)[1])
                              /\ Between(s.startY, s.targetY, Displayed(after, i)[2])
                              /\ elapsed >= MOVE_DURATION
                                    => Displayed(after, i) = <<s.targetX, s.targetY>>]_vars

(* An UPDATE_UNITS message is taken whose table has the declared size       *)
UnitUpdateAccepted ==
    /\ UnitUpdateHandled
    /\ Val(entityManager).device
    /\ Len(Head(inbox).unitData) = Head(inbox).unitCount * FLOATS_PER_UNIT

(* typeId and stateBits of slot i of a table                               *)
KindIn(unitData, i) ==
    <<unitData[i * FLOATS_PER_UNIT + 3], unitData[i * FLOATS_PER_UNIT + 4]>>

(* C30: the committed entity table is the table of the last accepted       *)
(* update and no other step changes it; every snapshot pushed to the GPU,  *)
(* by an accepted update or by a frame's advance, has the committed table's *)
(* length, typeId and stateBits in every slot, and differs from it in x or *)
(* y only in slots with an active interpolation                            *)
C30CommittedUntouched ==
    [][~IsNull(entityManager)
       => LET before == Val(entityManager)
              after == Val(entityManager')
              active == DOMAIN before.interpolationStates
                           \cup DOMAIN after.interpolationStates
          IN  /\ IF UnitUpdateAccepted
                 THEN /\ after.currentUnitData = Some(Head(inbox).unitData)
                      /\ after.currentUnitCount = Head(inbox).unitCount
                 ELSE /\ after.currentUnitData = before.currentUnitData
                      /\ after.currentUnitCount = before.currentUnitCount
              /\ (UnitUpdateAccepted \/ EntityAdvanced)
                    => LET committed == Val(after.currentUnitData)
                           snapshot == Val(Val(after.unitStorageBuffer).data)
                       IN  /\ Len(snapshot) = Len(committed)
                           /\ \A i \in 0..(after.currentUnitCount - 1) :
                                 /\ KindIn(snapshot, i) = KindIn(committed, i)
                                 /\ PositionIn(snapshot, i) # PositionIn(committed, i)
                                       => i \in active]_vars

(* C30 witness: a frame pushed a snapshot that shows slot 0 on its way     *)
(* (x = 1) while the committed table holds its target (x = 3)              *)
C30Witness ==
    /\ lastFrame.ran
    /\ ~IsNull(entityManager)
    /\ Val(entityManager).currentUnitData = Some(<<3, 0, 1, 0>>)
    /\ 0 \in DOMAIN Val(entityManager).interpolationStates
    /\ ~IsNull(Val(entityManager).unitStorageBuffer)
    /\ Val(Val(entityManager).unitStorageBuffer).data = Some(<<1, 0, 1, 0>>)
    /\ Val(entityManager).interpolatedData = Some(<<1, 0, 1, 0>>)

----------------------------------------------------------------------------
(* Adding and removing layers *)

LayerIdsOf(layers) == {layers[i].layerId : i \in DOMAIN layers}

(* A step of viewManager.remove                                            *)
RemoveStep ==
    /\ lastMsg'.type = "remove"
    /\ lastFrame' = lastFrame
    /\ sab' = sab
    /\ lastMsg' # lastMsg \/ Len(Val(viewManager').layers) # Len(Val(viewManager).layers)

(* C31: after remove(layer) the layer is not in the collection, the other  *)
(* layers keep their order and ids, cleanup ran once if the layer was in   *)
(* the collection and defines it, and a remove of a layer that is not in   *)
(* the collection changes nothing and runs no cleanup; every later update  *)
(* touches and captures for layers of the collection only                  *)
C31RemoveDetaches ==
    /\ [](lastMsg.type = "remove"
            => lastMsg.given.layerId \notin LayerIdsOf(Val(viewManager).layers))
    /\ [][(RemoveStep
            => LET layer == lastMsg'.given
                   before == Val(viewManager)
                   after == Val(viewManager')
                   member == layer.layerId \in LayerIdsOf(before.layers)
               IN  /\ layer.layerId \notin LayerIdsOf(after.layers)
                   /\ after.layers = SelectSeq(before.layers,
                                               LAMBDA l : l.layerId # layer.layerId)
                   /\ after.nextLayerId = before.nextLayerId
                   /\ lastMsg'.cleanups = IF member /\ layer.cleanup THEN 1 ELSE 0
                   /\ ~member => after = before)
          /\ (UpdateRan
                => /\ \A k \in DOMAIN lastFrame'.updated :
                         lastFrame'.updated[k].layerId
                             \in LayerIdsOf(Val(viewManager).layers)
                   /\ sab'["CAPTURED_LAYER_ID"]
                         \in LayerIdsOf(Val(viewManager).layers) \cup {-1})]_vars

(* C31 witness: the first of two layers, one with a cleanup method, was    *)
(* removed; the second keeps id 1, and an update gave it the capture       *)
C31Witness ==
    /\ lastMsg.type = "remove"
    /\ lastMsg.outcome = "removed"
    /\ lastMsg.given.layerId = 0
    /\ lastMsg.cleanups = 1
    /\ Len(Val(viewManager).layers) = 1
    /\ Val(viewManager).layers[1].layerId = 1
    /\ lastFrame.ran
    /\ sab["CAPTURED_LAYER_ID"] = 1

(* A step of viewManager.add                                               *)
AddStep ==
    /\ lastMsg'.type = "add"
    /\ lastFrame' = lastFrame
    /\ sab' = sab
    /\ lastMsg' # lastMsg \/ Val(viewManager') # Val(viewManager)
    /\ Val(viewManager').gpuContext = Val(viewManager).gpuContext
    /\ \A i \in DOMAIN Val(viewManager).layers :
          /\ i \in DOMAIN Val(viewManager').layers
          /\ Val(viewManager').layers[i] = Val(viewManager).layers[i]

(* C32: add before init throws and leaves the compositor as it was: the    *)
(* layer is not in the collection, has no id, is not initialised, and the  *)
(* next layer id is not consumed                                           *)
C32AddBeforeInitThrows ==
    [][(AddStep /\ ~Val(viewManager).gpuContext)
       => /\ lastMsg'.outcome = "threw"
          /\ viewManager' = viewManager
          /\ Val(viewManager').nextLayerId = Val(viewManager).nextLayerId
          /\ lastMsg'.layer = lastMsg'.given
          /\ lastMsg'.layer.layerId = -1
          /\ lastMsg'.layer.layerId \notin LayerIdsOf(Val(viewManager').layers)]_vars

(* C32 witness: a minimap, whose init would give it a viewport, was handed *)
(* to add before init                                                      *)
C32Witness ==
    /\ lastMsg.type = "add"
    /\ lastMsg.outcome = "threw"
    /\ lastMsg.given.kind = "minimap"
    /\ IsNull(lastMsg.layer.viewport)
    /\ ~Val(viewManager).gpuContext
    /\ Val(viewManager).layers = << >>
    /\ Val(viewManager).nextLayerId = 0

----------------------------------------------------------------------------
(* Entity tables of changing size and the GPU buffers *)

(* C33: after every accepted updateUnitData every active interpolation     *)
(* state belongs to a slot below the current count and its target is that  *)
(* slot's position in the committed table                                  *)
C33NoStaleInterpolation ==
    [][UnitUpdateAccepted
       => LET after == Val(entityManager')
              states == after.interpolationStates
          IN  \A i \in DOMAIN states :
                 /\ i < after.currentUnitCount
                 /\ <<states[i].targetX, states[i].targetY>>
                       = PositionIn(Val(after.currentUnitData), i)]_vars

(* An UPDATE_MAP message is taken whose grid is a square                   *)
MapUpdateAccepted ==
    /\ MapUpdateHandled
    /\ Val(mapManager).device
    /\ Head(inbox).data # NoGrid
    /\ IntegerSqrt(Head(inbox).data.length) > 0

(* The entity writes of C34: an accepted update and a frame's snapshot     *)
(* leave in the entity buffer data of exactly the buffer's byte size       *)
EntityWritesFit ==
    [][(UnitUpdateAccepted \/ EntityAdvanced)
       => LET buffer == Val(Val(entityManager').unitStorageBuffer)
          IN  /\ buffer.size = FloatByteLength(Val(Val(entityManager').currentUnitData))
              /\ ~IsNull(buffer.data)
              /\ buffer.size = FloatByteLength(Val(buffer.data))]_vars

(* C34: at every write into a manager's GPU buffer (grid update, entity    *)
(* update, per-frame snapshot) the buffer's byte size equals the byte      *)
(* length of the data written                                              *)
C34WritesFit ==
    [][/\ MapUpdateAccepted
          => Val(Val(mapManager').tilemapStorageBuffer).size
                = GridByteLength(Head(inbox).data)
       /\ (~IsNull(entityManager) /\ (UnitUpdateAccepted \/ EntityAdvanced))
          => Val(Val(entityManager').unitStorageBuffer).size
                = FloatByteLength(Val(Val(entityManager').currentUnitData))]_vars

(* C35: whenever an accepted update creates an interpolation state for a   *)
(* slot, the state's start is the position of the slot last written to the *)
(* GPU buffer                                                              *)
C35StartIsDisplayed ==
    [][UnitUpdateAccepted
       => LET before == Val(entityManager)
              after == Val(entityManager')
          IN  \A i \in DOMAIN after.interpolationStates :
                 (\/ i \notin DOMAIN before.interpolationStates
                  \/ after.interpolationStates[i] # before.interpolationStates[i])
                 => <<after.interpolationStates[i].startX,
                      after.interpolationStates[i].startY>> = Displayed(before, i)]_vars

(* C36: after every ViewManager.update the captured-layer id in the shared *)
(* channel is -1 or the id of a layer that is in the collection and        *)
(* visible, whatever adds, removes and visibility changes came before      *)
C36CaptureOwnerIsLive ==
    [][UpdateRan
       => LET captured == sab'["CAPTURED_LAYER_ID"]
              layers == Val(viewManager').layers
          IN  \/ captured = -1
              \/ \E i \in DOMAIN layers :
                    layers[i].layerId = captured /\ layers[i].visible]_vars

(* C36 witness: layer 0 was removed, layer 2 on top is hidden, the button  *)
(* is held and an update gave the capture to layer 1                       *)
C36Witness ==
    /\ lastFrame.ran
    /\ sab["IS_MOUSE_DOWN"] > 0
    /\ Len(Val(viewManager).layers) = 2
    /\ Val(viewManager).layers[1].layerId = 1
    /\ Val(viewManager).layers[2].layerId = 2
    /\ ~Val(viewManager).layers[2].visible
    /\ lastFrame.updated = <<[layerId |-> 1, captured |-> 1]>>
    /\ sab["CAPTURED_LAYER_ID"] = 1

----------------------------------------------------------------------------
(* The surface size and the hovered tile *)

(* C37: in every frame the surface width and height that                   *)
(* calculateHoveredTile reads from the shared channel are the canvas width *)
(* and height that the layers' camera uniforms get in that frame           *)
C37FrameSizesAgree ==
    [][(UpdateRan /\ workerPhase = "running")
       => /\ sab["SCREEN_WIDTH"] = OrDefault(Val(canvas).width, 800)
          /\ sab["SCREEN_HEIGHT"] = OrDefault(Val(canvas).height, 600)]_vars

(* C38: after every frame the hovered tile's X and Y in the shared channel *)
(* are both -1, when the surface width or height read was not positive, or *)
(* both in 0..63, for every pointer, camera and zoom and whatever grid the *)
(* map manager holds                                                       *)
C38HoveredTileInRange ==
    [][(UpdateRan /\ workerPhase = "running")
       => LET x == sab'["HOVERED_TILE_X"]
              y == sab'["HOVERED_TILE_Y"]
          IN  IF sab["SCREEN_WIDTH"] <= 0 \/ sab["SCREEN_HEIGHT"] <= 0
              THEN x = -1 /\ y = -1
              ELSE x \in 0..63 /\ y \in 0..63]_vars

(* C38 witness: with an 8 x 8 grid held, the camera at (64, 0) and the     *)
(* pointer in the lower right corner, a frame left the tile (63, 0)        *)
C38Witness ==
    /\ lastFrame.ran
    /\ getMapSize(Val(mapManager)) = 8
    /\ sab["CAMERA_X"] = 64
    /\ sab["MOUSE_WORLD_X"] = 799
    /\ sab["HOVERED_TILE_X"] = 63
    /\ sab["HOVERED_TILE_Y"] = 0

(* The ids of the units in a registry                                      *)
UnitIdsOf(reg) == {reg.units[i].id : i \in DOMAIN reg.units}

(* C39: addUnit called without an id returns an id that no unit in the     *)
(* registry has, so the unit count grows by exactly one, after any         *)
(* sequence of addUnit calls, with or without ids, and removeUnit calls    *)
C39AutoIdIsFresh ==
    [][(lastMsg' # lastMsg /\ lastMsg'.type = "addUnit" /\ IsNull(lastMsg'.given))
       => /\ lastMsg'.returned \notin UnitIdsOf(main.registry)
          /\ UnitRegistry_getUnitCount(main'.registry)
                = UnitRegistry_getUnitCount(main.registry) + 1]_vars

====
